---- MODULE Spec2Model ----
(***************************************************************************)
(* Model of the scop renderer: the window-event handlers of App            *)
(* (src/src/app.rs), Renderer::draw_frame (src/src/renderer/renderer.rs),  *)
(* VulkanSwapchain::recreate (src/src/renderer/swapchain.rs) and the GPU   *)
(* queues, fences and semaphores these handlers drive.                     *)
(*                                                                         *)
(* The CPU side is one thread; `pc` is its position.  A handler is split   *)
(* into the Vulkan calls it makes, one action per call, because the GPU    *)
(* and the presentation engine run between two calls.  Every Vulkan call   *)
(* that the source guards with `?` or `expect` may fail.                   *)
(***************************************************************************)
EXTENDS Integers, Sequences, FiniteSets, TLC

\* ------------------------------------------------------------------ bounds
MAX_FRAMES_IN_FLIGHT == 2
MaxImages == 2
MaxCalls == 3
MaxResizes == 1
MaxSize == 1
MaxErrs == 1
MaxLen == 3                 \* elements of a slice, vertices or indices of a mesh
MaxTypes == 3               \* memory types of the physical device
MaxLoads == 1               \* load_mesh calls after the one in App::resumed
MaxDim == 3                 \* width and height of a texture image, in pixels
U32_MAX == 3                \* the largest u32 of the extents: they are 0 .. U32_MAX
MaxMinImageCount == 10      \* largest min_image_count a surface reports
MaxViews == 5               \* image views handed to recreate_framebuffers
MaxPositions == 5           \* `v` lines of an OBJ file
MaxFaceLen == 4             \* vertices on an `f` line

Slots == 0 .. (MAX_FRAMES_IN_FLIGHT - 1)
ImageIds == 0 .. (MaxImages - 1)
ImageCounts == 2 .. MaxImages
WindowSizes == 0 .. MaxSize
NoSlot == -1
NoImage == -1
NoSize == << -1, -1 >>

VARIABLES
    pc,                          \* position of the CPU thread
    current_frame,               \* sync.current_frame
    in_flight_fences,            \* slot -> TRUE when the fence is signaled
    image_available_semaphores,  \* slot -> TRUE when the semaphore is signaled
    render_finished_semaphores,  \* slot -> TRUE when the semaphore is signaled
    uniform_buffers,             \* slot -> TRUE when the running call rewrote the buffer
    command_buffers,             \* slot -> what was recorded last
    swapchain,                   \* [id, count] of App.swapchain
    render_pass,                 \* [framebuffers] of App.render_pass
    depth_buffer,                \* the DepthBuffer handed to the render pass
    pipeline,                    \* App.pipeline
    alive,                       \* native object -> "live" | "destroyed" | "destroyed_twice"
    images,                      \* swapchain image -> who holds it
    image_sem,                   \* swapchain image -> semaphore its acquire signals
    graphics_queue,              \* batches submitted and not yet executed
    present_queue,               \* present requests queued and not yet executed
    frame,                       \* locals of the running draw_frame call
    resize,                      \* size of the Resized event, until the next event
    calls,                       \* history: number of draw_frame calls started
    ok_calls,                    \* history: number of draw_frame calls that returned Ok
    last_result,                 \* history: out-of-date or suboptimal result that
                                 \* the last draw_frame call on this swapchain got
    teardown,                    \* history: release order of App::cleanup
    panicking,                   \* TRUE once an `expect` has panicked
    mesh_buffers,                \* Renderer.mesh_buffers
    call                         \* arguments, locals and effects of the running
                                 \* Buffer or MeshBuffers function

vars == << pc, current_frame, in_flight_fences, image_available_semaphores,
           render_finished_semaphores, uniform_buffers, command_buffers,
           swapchain, render_pass, depth_buffer, pipeline, alive, images,
           image_sem,
           graphics_queue, present_queue, frame, resize, calls, ok_calls,
           last_result, teardown, panicking, mesh_buffers, call >>

gpu_vars == << in_flight_fences, image_available_semaphores,
               render_finished_semaphores, images, image_sem,
               graphics_queue, present_queue >>

object_vars == << swapchain, render_pass, depth_buffer, pipeline, alive,
                 teardown, panicking >>

history_vars == << calls, ok_calls, last_result >>

buffer_vars == << mesh_buffers, call >>

\* ----------------------------------------------------------------- objects
SwapchainObjects == { "image_views", "swapchain" }
RenderPassObjects == { "framebuffers", "render_pass" }
DepthBufferObjects == { "depth_buffer" }
RendererObjects == { "mesh_buffers", "uniform_buffers", "descriptor_pool",
                     "command_pool", "sync" }
Objects == SwapchainObjects \cup RenderPassObjects \cup RendererObjects
           \cup DepthBufferObjects
           \cup { "pipeline", "device", "surface", "instance" }

Release(a, o) ==
    [a EXCEPT ![o] = IF a[o] = "live" THEN "destroyed" ELSE "destroyed_twice"]

RECURSIVE ReleaseAll(_, _)
ReleaseAll(a, os) ==
    IF os = << >> THEN a ELSE ReleaseAll(Release(a, Head(os)), Tail(os))

NoFrame == [slot |-> NoSlot, image_index |-> NoImage]
NoMesh == [gen |-> -1]
NoCall == [fn |-> "none"]

GpuIdle == graphics_queue = << >> /\ present_queue = << >>

\* -------------------------------------------------- swapchain construction
\* VulkanSwapchain::new: the model keeps which swapchain this is and how
\* many images it has; the images' format and extent play no part in the
\* frame loop.
NewSwapchain(id, count) == [id |-> id, count |-> count]

FreshImages(count) ==
    [i \in ImageIds |-> IF i < count THEN "free" ELSE "none"]

\* swapchain.image_views (swapchain.rs 90-96): one view per image
image_views(sc) ==
    [i \in 1 .. sc.count |-> [swapchain |-> sc.id, image |-> i - 1]]

\* DepthBuffer::new(width, height): callers size it to a swapchain's
\* extent; the model keeps which swapchain's.
DepthBuffer_new(sc) == [image_view |-> [extent_of |-> sc.id]]

\* swapchain.extent (swapchain.rs 102-109): the extent chosen when this
\* swapchain was created; the model keeps which swapchain's extent it is.
swapchain_extent(sc) == [extent_of |-> sc.id]

\* VulkanRenderPass::create_framebuffers: one framebuffer per image view,
\* in order, each with the attachments [image_view, depth_buffer.image_view]
\* and the width and height of the extent it is given
create_framebuffers_OneShort(views, extent, depth) ==
    [i \in 1 .. Len(views) - 1 |->
        [attachments |-> << views[i], depth.image_view >>,
         extent |-> extent]]

create_framebuffers_Reversed(views, extent, depth) ==
    [i \in 1 .. Len(views) |->
        [attachments |-> << views[Len(views) + 1 - i], depth.image_view >>,
         extent |-> extent]]

create_framebuffers(views, extent, depth) ==
    [i \in 1 .. Len(views) |->
        [attachments |-> << views[i], depth.image_view >>,
         extent |-> extent]]

VulkanPipeline_new(gen, sc) == [gen |-> gen, swapchain |-> sc.id]

\* ------------------------------------------------------------- Descriptors
\* VulkanPipeline::create_descriptor_set_layout: the bindings of the
\* pipeline's only descriptor-set layout
create_descriptor_set_layout ==
    << [binding |-> 0, descriptor_type |-> "UNIFORM_BUFFER",
        descriptor_count |-> 1],
       [binding |-> 1, descriptor_type |-> "COMBINED_IMAGE_SAMPLER",
        descriptor_count |-> 1],
       [binding |-> 2, descriptor_type |-> "UNIFORM_BUFFER",
        descriptor_count |-> 1] >>

\* Descriptors::new, on the path where every Vulkan call succeeds: a pool
\* of max_frames_in_flight uniform-buffer descriptors and as many sets,
\* one set per slot allocated with the pipeline's layout, and one write
\* per set, of the slot's uniform buffer to binding 0.
Descriptors_new(descriptor_set_layout) ==
    [descriptor_pool |->
        [pool_sizes |-> << [ty |-> "UNIFORM_BUFFER",
                            descriptor_count |-> MAX_FRAMES_IN_FLIGHT] >>,
         max_sets |-> MAX_FRAMES_IN_FLIGHT],
     descriptor_sets |->
        [i \in Slots |->
            [layout |-> descriptor_set_layout,
             descriptor_writes |->
                << [dst_binding |-> 0,
                    descriptor_type |-> "UNIFORM_BUFFER",
                    buffer |-> [uniform_buffer |-> i]] >>]]]

\* renderer.descriptors (renderer.rs 35): created once by Renderer::new
\* and never written again
descriptors == Descriptors_new(create_descriptor_set_layout)

\* ------------------------------------------------------------------ Buffer
\* size_of::<u32>() and size_of::<Vertex>() (#[repr(C)], eleven f32)
SizeOfU32 == 4
SizeOfVertex == 44
ElementSizes == { SizeOfU32, SizeOfVertex }
Lens == 0 .. MaxLen
BufferSizes == { e * n : e \in ElementSizes, n \in Lens }

\* Buffer::upload_data(&self, device, data: &[T]).  `size_of` is
\* size_of::<T>(), `len` is data.len(), `map_ok` is whether
\* vkMapMemory succeeds.  The result carries the Vulkan calls and the copy
\* the function made, in order.
upload_data_Unchecked(self, size_of, len, map_ok) ==
    LET data_size == size_of * len IN
    IF ~map_ok
    THEN [result |-> "err",
          ops |-> << [op |-> "map_memory", offset |-> 0, size |-> data_size,
                      ok |-> FALSE] >>]
    ELSE [result |-> "ok",
          ops |-> << [op |-> "map_memory", offset |-> 0, size |-> data_size,
                      ok |-> TRUE],
                     [op |-> "copy_from_slice", size |-> data_size],
                     [op |-> "unmap_memory"] >>]

upload_data(self, size_of, len, map_ok) ==
    LET data_size == size_of * len IN
    IF data_size > self.size
    THEN [result |-> "err", ops |-> << >>]
    ELSE IF ~map_ok
    THEN [result |-> "err",
          ops |-> << [op |-> "map_memory", offset |-> 0, size |-> data_size,
                      ok |-> FALSE] >>]
    ELSE [result |-> "ok",
          ops |-> << [op |-> "map_memory", offset |-> 0, size |-> data_size,
                      ok |-> TRUE],
                     [op |-> "copy_from_slice", size |-> data_size],
                     [op |-> "unmap_memory"] >>]

\* Buffer::new: the buffer it returns when every Vulkan call succeeds
Buffer_new(size, usage, properties) ==
    [size |-> size, usage |-> usage, properties |-> properties]

\* ------------------------------------------------------------- MeshBuffers
\* A Mesh is kept by its number of vertices and of indices.
Meshes == [vertices : Lens, indices : Lens]

\* The steps of create_vertex_buffer / create_index_buffer that can fail
\* (each a `?`), in order; 0 stands for none failing.
CreateSteps == << "staging_new", "upload_data", "buffer_new", "copy_buffer" >>
FailPoints == 0 .. Len(CreateSteps)

\* The common body of create_vertex_buffer and create_index_buffer:
\* `size_of` * `len` bytes, staged in host-visible memory, copied to a
\* device-local buffer of `usage`.  `ops` lists the Buffer calls made.
create_buffer(size_of, len, usage, fail_at) ==
    LET buffer_size == size_of * len
        staging_buffer ==
            Buffer_new(buffer_size, { "TRANSFER_SRC" },
                       { "HOST_VISIBLE", "HOST_COHERENT" })
        upload == upload_data(staging_buffer, size_of, len, fail_at # 2)
        buffer ==
            Buffer_new(buffer_size, { "TRANSFER_DST", usage },
                       { "DEVICE_LOCAL" })
        op1 == [op |-> "new", buffer |-> staging_buffer]
        op2 == [op |-> "upload_data", buffer |-> staging_buffer,
                ops |-> upload.ops]
        op3 == [op |-> "new", buffer |-> buffer]
        op4 == [op |-> "copy_buffer", src |-> staging_buffer, dst |-> buffer,
                size |-> buffer_size]
        op5 == [op |-> "cleanup", buffer |-> staging_buffer]
    IN  IF fail_at = 1 THEN [result |-> "err", ops |-> << >>]
        ELSE IF upload.result = "err"
        THEN [result |-> "err", ops |-> << op1, op2 >>]
        ELSE IF fail_at = 3 THEN [result |-> "err", ops |-> << op1, op2 >>]
        ELSE IF fail_at = 4
        THEN [result |-> "err", ops |-> << op1, op2, op3 >>]
        ELSE [result |-> "ok", buffer |-> buffer,
              ops |-> << op1, op2, op3, op4, op5 >>]

create_vertex_buffer_IndexSized(vertices, fail_at) ==
    create_buffer(SizeOfU32, vertices, "VERTEX_BUFFER", fail_at)

create_vertex_buffer(vertices, fail_at) ==
    create_buffer(SizeOfVertex, vertices, "VERTEX_BUFFER", fail_at)

create_index_buffer(indices, fail_at) ==
    create_buffer(SizeOfU32, indices, "INDEX_BUFFER", fail_at)

\* MeshBuffers::from_mesh; `gen` numbers the MeshBuffers values created.
from_mesh_VertexCount(gen, mesh, fail_vertex, fail_index) ==
    LET v == create_vertex_buffer(mesh.vertices, fail_vertex)
        i == create_index_buffer(mesh.indices, fail_index)
    IN  IF v.result = "err" THEN [result |-> "err", ops |-> v.ops]
        ELSE IF i.result = "err"
        THEN [result |-> "err", ops |-> v.ops \o i.ops]
        ELSE [result |-> "ok", ops |-> v.ops \o i.ops,
              mesh_buffers |-> [gen |-> gen,
                                vertex_buffer |-> v.buffer,
                                index_buffer |-> i.buffer,
                                index_count |-> mesh.vertices]]

from_mesh(gen, mesh, fail_vertex, fail_index) ==
    LET v == create_vertex_buffer(mesh.vertices, fail_vertex)
        i == create_index_buffer(mesh.indices, fail_index)
    IN  IF v.result = "err" THEN [result |-> "err", ops |-> v.ops]
        ELSE IF i.result = "err"
        THEN [result |-> "err", ops |-> v.ops \o i.ops]
        ELSE [result |-> "ok", ops |-> v.ops \o i.ops,
              mesh_buffers |-> [gen |-> gen,
                                vertex_buffer |-> v.buffer,
                                index_buffer |-> i.buffer,
                                index_count |-> mesh.indices]]

\* The mesh App::resumed loads from the OBJ file; the model takes a
\* triangle.
App_mesh == [vertices |-> 3, indices |-> 3]

\* --------------------------------------------------------------------- Init
\* The state App::resumed leaves: every object created, the mesh loaded,
\* slot 0 current, both fences created signaled.
App_resumed ==
    /\ pc = "idle"
    /\ current_frame = 0
    /\ in_flight_fences = [s \in Slots |-> TRUE]
    /\ image_available_semaphores = [s \in Slots |-> FALSE]
    /\ render_finished_semaphores = [s \in Slots |-> FALSE]
    /\ uniform_buffers = [s \in Slots |-> FALSE]
    /\ command_buffers = [s \in Slots |-> [framebuffer |-> NoImage, descriptor_set |-> NoSlot,
                             vertex_buffers |-> NoMesh.gen]]
    /\ \E count \in ImageCounts : swapchain = NewSwapchain(0, count)
    /\ depth_buffer = DepthBuffer_new(swapchain)
    /\ render_pass =
          [framebuffers |-> create_framebuffers(image_views(swapchain),
                                           swapchain_extent(swapchain),
                                           depth_buffer)]
    /\ pipeline = VulkanPipeline_new(0, swapchain)
    /\ alive = [o \in Objects |-> "live"]
    /\ images = FreshImages(swapchain.count)
    /\ image_sem = [i \in ImageIds |-> NoSlot]
    /\ graphics_queue = << >>
    /\ present_queue = << >>
    /\ frame = NoFrame
    /\ resize = NoSize
    /\ calls = 0
    /\ ok_calls = 0
    /\ last_result = "none"
    /\ teardown = << >>
    /\ panicking = FALSE
    /\ mesh_buffers = from_mesh(0, App_mesh, 0, 0).mesh_buffers

Init ==
    /\ App_resumed
    /\ call = NoCall

\* ------------------------------------------------- Renderer::draw_frame
\* The semaphores, fence and command buffer of one submission
\* (renderer.rs 185-203): all four are indexed by the local current_frame.
SubmitInfo_FirstFence(cf) ==
    [wait |-> {cf}, signal |-> {cf}, fence |-> 0, cmd |-> cf]

SubmitInfo(cf) ==
    [wait |-> {cf}, signal |-> {cf}, fence |-> cf, cmd |-> cf]

\* The present request (renderer.rs 208-214): it waits on the array the
\* submission signals and names the image the acquire returned.
PresentInfo_NoWait(cf, image_index) ==
    [wait |-> {}, image |-> image_index]

PresentInfo(cf, image_index) ==
    [wait |-> SubmitInfo(cf).signal, image |-> image_index]

\* renderer.rs 224
NextFrame_Stuck(cf) == cf

NextFrame(cf) == (cf + 1) % MAX_FRAMES_IN_FLIGHT

\* UniformBuffers::update (uniform_buffer.rs 42-44): buffers[frame_index]
\* is rewritten.
UniformBuffers_update_First(buffers, frame_index) ==
    [buffers EXCEPT ![0] = TRUE]

UniformBuffers_update(buffers, frame_index) ==
    [buffers EXCEPT ![frame_index] = TRUE]

\* draw_frame returns to App::draw_frame, which only logs an Err
\* (app.rs 170-172), and the handler returns to the event loop.
Return(ok, result) ==
    /\ ok \/ calls - ok_calls <= MaxErrs
    /\ pc' = "idle"
    /\ frame' = NoFrame
    /\ uniform_buffers' = [s \in Slots |-> FALSE]
    /\ last_result' = result
    /\ ok_calls' = IF ok THEN ok_calls + 1 ELSE ok_calls

\* WindowEvent::RedrawRequested -> App::draw_frame -> Renderer::draw_frame,
\* up to the read of sync.current_frame into the local (renderer.rs 111).
RedrawRequested ==
    /\ pc = "idle"
    /\ calls < MaxCalls
    /\ pc' = "wait_for_fences"
    /\ frame' = [slot |-> current_frame, image_index |-> NoImage]
    /\ calls' = calls + 1
    /\ resize' = NoSize
    /\ UNCHANGED << current_frame, uniform_buffers, command_buffers,
                    ok_calls, last_result >>
    /\ UNCHANGED gpu_vars
    /\ UNCHANGED object_vars
    /\ UNCHANGED buffer_vars

\* 1. wait_for_fences on the slot's fence, timeout u64::MAX: blocks until
\* the fence is signaled.
WaitForFences_NoWait ==
    /\ pc = "wait_for_fences"
    /\ pc' = "acquire_next_image"
    /\ UNCHANGED << current_frame, uniform_buffers, command_buffers, resize,
                    frame >>
    /\ UNCHANGED gpu_vars
    /\ UNCHANGED history_vars
    /\ UNCHANGED object_vars
    /\ UNCHANGED buffer_vars

WaitForFences ==
    /\ pc = "wait_for_fences"
    /\ \E r \in {"ok", "err"} :
          IF r = "ok"
          THEN /\ in_flight_fences[frame.slot]
               /\ pc' = "acquire_next_image"
               /\ UNCHANGED << frame, ok_calls, last_result, uniform_buffers >>
          ELSE Return(FALSE, "none")
    /\ UNCHANGED << current_frame, command_buffers, resize, calls >>
    /\ UNCHANGED gpu_vars
    /\ UNCHANGED object_vars
    /\ UNCHANGED buffer_vars

\* 2. acquire_next_image, timeout u64::MAX, semaphore = the slot's
\* image-available semaphore.  SUCCESS and SUBOPTIMAL return an image (the
\* suboptimal flag is dropped); the image may still be read by the
\* presentation engine, the semaphore is signaled when it is not.
\* ERROR_OUT_OF_DATE returns Err.  Which free image is returned is the
\* implementation's choice; the images are interchangeable, so the model
\* returns the one with the lowest index.
\* Vulkan requires the semaphore to be unsignaled with no signal pending.
\* When it is not (an earlier call acquired with it and returned before
\* its submit) the behaviour is undefined: the earlier signal either stays
\* on the semaphore or is replaced by the new acquire's.
AcquireNextImage ==
    /\ pc = "acquire_next_image"
    /\ \E r \in {"success", "suboptimal", "out_of_date"} :
          IF r = "out_of_date"
          THEN /\ Return(FALSE, "acquire_out_of_date")
               /\ UNCHANGED << images, image_sem, image_available_semaphores >>
          ELSE \E i \in ImageIds, keep \in BOOLEAN :
                 /\ images[i] = "free"
                 /\ \A j \in ImageIds : j < i => images[j] # "free"
                 /\ images' = [images EXCEPT ![i] = "acquired"]
                 /\ image_sem' =
                       [j \in ImageIds |->
                          IF j = i THEN frame.slot
                          ELSE IF image_sem[j] = frame.slot /\ ~ keep THEN NoSlot
                          ELSE image_sem[j]]
                 /\ image_available_semaphores' =
                       [image_available_semaphores EXCEPT ![frame.slot] = @ /\ keep]
                 /\ frame' = [frame EXCEPT !.image_index = i]
                 /\ pc' = "reset_fences"
                 /\ UNCHANGED << ok_calls, last_result, uniform_buffers >>
    /\ UNCHANGED << current_frame, command_buffers, resize,
                    calls, in_flight_fences,
                    render_finished_semaphores, graphics_queue, present_queue >>
    /\ UNCHANGED object_vars
    /\ UNCHANGED buffer_vars

\* 3. reset_fences on the slot's fence
ResetFences_Skipped ==
    /\ pc = "reset_fences"
    /\ pc' = "update_uniform_buffer"
    /\ UNCHANGED << current_frame, uniform_buffers, command_buffers, resize,
                    frame >>
    /\ UNCHANGED gpu_vars
    /\ UNCHANGED history_vars
    /\ UNCHANGED object_vars
    /\ UNCHANGED buffer_vars

ResetFences ==
    /\ pc = "reset_fences"
    /\ \E r \in {"ok", "err"} :
          IF r = "ok"
          THEN /\ in_flight_fences' = [in_flight_fences EXCEPT ![frame.slot] = FALSE]
               /\ pc' = "update_uniform_buffer"
               /\ UNCHANGED << frame, ok_calls, last_result, uniform_buffers >>
          ELSE /\ Return(FALSE, "none")
               /\ UNCHANGED in_flight_fences
    /\ UNCHANGED << current_frame, command_buffers, resize,
                    calls, image_available_semaphores,
                    render_finished_semaphores, images, image_sem,
                    graphics_queue, present_queue >>
    /\ UNCHANGED object_vars
    /\ UNCHANGED buffer_vars

\* 4. update_uniform_buffer -> UniformBuffers::update(current_frame) ->
\* Buffer::upload_data: the payload is the buffer's size, so only
\* map_memory can fail.
UpdateUniformBuffer ==
    /\ pc = "update_uniform_buffer"
    /\ \E r \in {"ok", "err"} :
          IF r = "ok"
          THEN /\ uniform_buffers' = UniformBuffers_update(uniform_buffers, frame.slot)
               /\ pc' = "record_command_buffer"
               /\ UNCHANGED << frame, ok_calls, last_result >>
          ELSE Return(FALSE, "none")
    /\ UNCHANGED << current_frame, command_buffers, resize, calls >>
    /\ UNCHANGED gpu_vars
    /\ UNCHANGED object_vars
    /\ UNCHANGED buffer_vars

\* 5. reset_command_buffer and record_command_buffer_with_mesh on
\* command_buffers[current_frame]: the render pass begins on
\* framebuffers[image_index] and binds descriptor_sets[current_frame].
RecordCommandBuffer ==
    /\ pc = "record_command_buffer"
    /\ \E r \in {"ok", "err"} :
          IF r = "ok"
          THEN /\ command_buffers' =
                      [command_buffers EXCEPT ![frame.slot] =
                          [framebuffer |-> frame.image_index,
                           descriptor_set |-> frame.slot,
                           vertex_buffers |-> mesh_buffers.gen]]
               /\ pc' = "queue_submit"
               /\ UNCHANGED << frame, ok_calls, last_result, uniform_buffers >>
          ELSE /\ Return(FALSE, "none")
               /\ UNCHANGED command_buffers
    /\ UNCHANGED << current_frame, resize, calls >>
    /\ UNCHANGED gpu_vars
    /\ UNCHANGED object_vars
    /\ UNCHANGED buffer_vars

\* 6. queue_submit to the graphics queue
QueueSubmit ==
    /\ pc = "queue_submit"
    /\ \E r \in {"ok", "err"} :
          IF r = "ok"
          THEN /\ graphics_queue' = Append(graphics_queue, SubmitInfo(frame.slot))
               /\ pc' = "queue_present"
               /\ UNCHANGED << frame, ok_calls, last_result, uniform_buffers >>
          ELSE /\ Return(FALSE, "none")
               /\ UNCHANGED graphics_queue
    /\ UNCHANGED << current_frame, command_buffers, resize,
                    calls, in_flight_fences,
                    image_available_semaphores, render_finished_semaphores,
                    images, image_sem, present_queue >>
    /\ UNCHANGED object_vars
    /\ UNCHANGED buffer_vars

\* 7. queue_present, then the slot advances.  SUCCESS and SUBOPTIMAL are
\* Ok (the flag is dropped); ERROR_OUT_OF_DATE is Err and returns before
\* the slot advances, but the request's semaphore wait is still queued.
QueuePresent_AlwaysAdvance ==
    /\ pc = "queue_present"
    /\ present_queue' = Append(present_queue, PresentInfo(frame.slot, frame.image_index))
    /\ \E r \in {"success", "suboptimal", "out_of_date"} :
          IF r = "out_of_date"
          THEN /\ Return(FALSE, "present_out_of_date")
               /\ current_frame' = NextFrame(frame.slot)
          ELSE /\ current_frame' = NextFrame(frame.slot)
               /\ Return(TRUE, IF r = "success" THEN "none" ELSE "present_suboptimal")
    /\ UNCHANGED << command_buffers, resize, calls, in_flight_fences,
                    image_available_semaphores, render_finished_semaphores,
                    images, image_sem, graphics_queue >>
    /\ UNCHANGED object_vars
    /\ UNCHANGED buffer_vars

QueuePresent ==
    /\ pc = "queue_present"
    /\ present_queue' = Append(present_queue, PresentInfo(frame.slot, frame.image_index))
    /\ \E r \in {"success", "suboptimal", "out_of_date"} :
          IF r = "out_of_date"
          THEN /\ Return(FALSE, "present_out_of_date")
               /\ UNCHANGED current_frame
          ELSE /\ current_frame' = NextFrame(frame.slot)
               /\ Return(TRUE, IF r = "success" THEN "none" ELSE "present_suboptimal")
    /\ UNCHANGED << command_buffers, resize, calls, in_flight_fences,
                    image_available_semaphores, render_finished_semaphores,
                    images, image_sem, graphics_queue >>
    /\ UNCHANGED object_vars
    /\ UNCHANGED buffer_vars

\* --------------------------------------------- GPU and presentation engine
\* The presentation engine stops reading an acquired image: the image is
\* available and the semaphore given to its acquire is signaled.
ImageAvailable ==
    /\ \E i \in ImageIds :
          /\ images[i] = "acquired"
          /\ images' = [images EXCEPT ![i] = "ready"]
          /\ image_available_semaphores' =
                [s \in Slots |-> image_available_semaphores[s] \/ s = image_sem[i]]
    /\ UNCHANGED << pc, current_frame, uniform_buffers, command_buffers, frame,
                    resize, in_flight_fences, render_finished_semaphores,
                    image_sem, graphics_queue, present_queue >>
    /\ UNCHANGED history_vars
    /\ UNCHANGED object_vars
    /\ UNCHANGED buffer_vars

\* The graphics queue executes its oldest batch: it waits on (and resets)
\* the batch's wait semaphores, runs the command buffer, which writes the
\* image behind the framebuffer it was recorded with, then signals the
\* batch's semaphores and fence.
GpuExecute ==
    /\ graphics_queue # << >>
    /\ LET b == Head(graphics_queue)
           target == command_buffers[b.cmd].framebuffer
       IN  /\ \A s \in b.wait : image_available_semaphores[s]
           /\ image_available_semaphores' =
                 [s \in Slots |-> IF s \in b.wait THEN FALSE
                                  ELSE image_available_semaphores[s]]
           /\ render_finished_semaphores' =
                 [s \in Slots |-> IF s \in b.signal THEN TRUE
                                  ELSE render_finished_semaphores[s]]
           /\ in_flight_fences' = [in_flight_fences EXCEPT ![b.fence] = TRUE]
           /\ images' = [images EXCEPT ![target] = "written"]
           /\ graphics_queue' = Tail(graphics_queue)
    /\ UNCHANGED << pc, current_frame, uniform_buffers, command_buffers, frame,
                    resize, image_sem, present_queue >>
    /\ UNCHANGED history_vars
    /\ UNCHANGED object_vars
    /\ UNCHANGED buffer_vars

\* The present queue executes its oldest request: it waits on (and resets)
\* the request's wait semaphores, the image is shown and goes back to the
\* presentation engine.
PresentExecute ==
    /\ present_queue # << >>
    /\ LET p == Head(present_queue)
       IN  /\ \A s \in p.wait : render_finished_semaphores[s]
           /\ render_finished_semaphores' =
                 [s \in Slots |-> IF s \in p.wait THEN FALSE
                                  ELSE render_finished_semaphores[s]]
           /\ images' = [images EXCEPT ![p.image] = "free"]
           /\ present_queue' = Tail(present_queue)
    /\ UNCHANGED << pc, current_frame, uniform_buffers, command_buffers, frame,
                    resize, in_flight_fences, image_available_semaphores,
                    image_sem, graphics_queue >>
    /\ UNCHANGED history_vars
    /\ UNCHANGED object_vars
    /\ UNCHANGED buffer_vars

\* ------------------------------------------------------ App::handle_resize
\* A failed `expect` panics: the stack unwinds out of the event loop and
\* main, App is dropped and Drop for App runs App::cleanup.
Panic ==
    /\ pc' = "cleanup_wait_idle"
    /\ panicking' = TRUE
    /\ resize' = NoSize

\* app.rs 149
ResizeAccepted_WidthOnly(width, height) == width > 0

ResizeAccepted(width, height) == width > 0 /\ height > 0

\* The event loop delivers WindowEvent::Resized(size) to window_event.
Resized ==
    /\ pc = "idle"
    /\ \E width \in WindowSizes, height \in WindowSizes :
          /\ ResizeAccepted(width, height) => swapchain.id < MaxResizes
          /\ resize' = << width, height >>
    /\ pc' = "resized"
    /\ UNCHANGED << current_frame, uniform_buffers, command_buffers, frame >>
    /\ UNCHANGED gpu_vars
    /\ UNCHANGED history_vars
    /\ UNCHANGED object_vars
    /\ UNCHANGED buffer_vars

\* The Resized arm of window_event (app.rs 146-152): handle_resize runs
\* only when both dimensions are positive, otherwise the handler returns.
ResizedArm ==
    /\ pc = "resized"
    /\ pc' = IF ResizeAccepted(resize[1], resize[2])
             THEN "recreate_wait_idle" ELSE "idle"
    /\ UNCHANGED << current_frame, uniform_buffers, command_buffers, frame,
                    resize >>
    /\ UNCHANGED gpu_vars
    /\ UNCHANGED history_vars
    /\ UNCHANGED object_vars
    /\ UNCHANGED buffer_vars

\* VulkanSwapchain::recreate, device_wait_idle (swapchain.rs 209-214):
\* returns once both queues are empty.
RecreateWaitIdle_NoWait ==
    /\ pc = "recreate_wait_idle"
    /\ pc' = "swapchain_cleanup"
    /\ UNCHANGED << current_frame, uniform_buffers, command_buffers, frame,
                    resize >>
    /\ UNCHANGED gpu_vars
    /\ UNCHANGED history_vars
    /\ UNCHANGED object_vars
    /\ UNCHANGED buffer_vars

RecreateWaitIdle ==
    /\ pc = "recreate_wait_idle"
    /\ \E r \in {"ok", "err"} :
          IF r = "ok"
          THEN /\ GpuIdle
               /\ pc' = "swapchain_cleanup"
               /\ UNCHANGED << panicking, resize >>
          ELSE Panic
    /\ UNCHANGED << current_frame, uniform_buffers, command_buffers, frame,
                    swapchain, render_pass, depth_buffer, pipeline, alive,
                    teardown >>
    /\ UNCHANGED gpu_vars
    /\ UNCHANGED history_vars
    /\ UNCHANGED buffer_vars

\* VulkanSwapchain::cleanup (swapchain.rs 233-240): the image views, then
\* the swapchain.  The images go with the swapchain; the semaphore of an
\* image that was acquired and not yet available is signaled or not.
SwapchainCleanup ==
    /\ pc = "swapchain_cleanup"
    /\ alive' = ReleaseAll(alive, << "image_views", "swapchain" >>)
    /\ images' = [i \in ImageIds |-> "none"]
    /\ image_sem' = [i \in ImageIds |-> NoSlot]
    /\ image_available_semaphores' \in
          { f \in [Slots -> BOOLEAN] :
              \A s \in Slots :
                 \/ f[s] = image_available_semaphores[s]
                 \/ /\ f[s]
                    /\ \E i \in ImageIds : images[i] = "acquired" /\ image_sem[i] = s }
    /\ pc' = "swapchain_new"
    /\ UNCHANGED << current_frame, uniform_buffers, command_buffers, frame,
                    resize, swapchain, render_pass, depth_buffer, pipeline,
                    teardown,
                    panicking, in_flight_fences, render_finished_semaphores,
                    graphics_queue, present_queue >>
    /\ UNCHANGED history_vars
    /\ UNCHANGED buffer_vars

\* VulkanSwapchain::new inside recreate (swapchain.rs 218-227): on success
\* *self is replaced; on failure self keeps the destroyed handles.
SwapchainNew ==
    /\ pc = "swapchain_new"
    /\ \E r \in {"ok", "err"} :
          IF r = "ok"
          THEN \E count \in ImageCounts :
                 /\ swapchain' = NewSwapchain(swapchain.id + 1, count)
                 /\ alive' = [alive EXCEPT !["image_views"] = "live",
                                           !["swapchain"] = "live"]
                 /\ images' = FreshImages(count)
                 /\ pc' = "recreate_framebuffers"
                 /\ resize' = NoSize
                 /\ UNCHANGED panicking
          ELSE /\ Panic
               /\ UNCHANGED << swapchain, alive, images >>
    /\ UNCHANGED << current_frame, uniform_buffers, command_buffers, frame,
                    render_pass, depth_buffer, pipeline, teardown,
                    in_flight_fences,
                    image_available_semaphores, render_finished_semaphores,
                    image_sem, graphics_queue, present_queue >>
    /\ UNCHANGED history_vars
    /\ UNCHANGED buffer_vars

\* VulkanRenderPass::recreate_framebuffers (app.rs 192-196): the old
\* framebuffers are destroyed, then one is created per image view.
RecreateFramebuffers_Kept ==
    /\ pc = "recreate_framebuffers"
    /\ \E r \in {"ok", "err"} :
          IF r = "ok"
          THEN /\ UNCHANGED render_pass
               /\ alive' = [Release(alive, "framebuffers") EXCEPT !["framebuffers"] = "live"]
               /\ pc' = "recreate_pipeline"
               /\ UNCHANGED << panicking, resize >>
          ELSE /\ alive' = Release(alive, "framebuffers")
               /\ Panic
               /\ UNCHANGED render_pass
    /\ UNCHANGED << current_frame, uniform_buffers, command_buffers, frame,
                    swapchain, depth_buffer, pipeline, teardown >>
    /\ UNCHANGED gpu_vars
    /\ UNCHANGED history_vars
    /\ UNCHANGED buffer_vars

RecreateFramebuffers ==
    /\ pc = "recreate_framebuffers"
    /\ \E r \in {"ok", "err"} :
          IF r = "ok"
          THEN /\ render_pass' =
                    [framebuffers |->
                        create_framebuffers(image_views(swapchain),
                                           swapchain_extent(swapchain),
                                           depth_buffer)]
               /\ alive' = [Release(alive, "framebuffers") EXCEPT !["framebuffers"] = "live"]
               /\ pc' = "recreate_pipeline"
               /\ UNCHANGED << panicking, resize >>
          ELSE /\ alive' = Release(alive, "framebuffers")
               /\ Panic
               /\ UNCHANGED render_pass
    /\ UNCHANGED << current_frame, uniform_buffers, command_buffers, frame,
                    swapchain, depth_buffer, pipeline, teardown >>
    /\ UNCHANGED gpu_vars
    /\ UNCHANGED history_vars
    /\ UNCHANGED buffer_vars

\* pipeline.cleanup and VulkanPipeline::new (app.rs 198-203)
RecreatePipeline ==
    /\ pc = "recreate_pipeline"
    /\ \E r \in {"ok", "err"} :
          IF r = "ok"
          THEN /\ pipeline' = VulkanPipeline_new(pipeline.gen + 1, swapchain)
               /\ alive' = [Release(alive, "pipeline") EXCEPT !["pipeline"] = "live"]
               /\ pc' = "idle"
               /\ last_result' = "none"
               /\ UNCHANGED << panicking, resize >>
          ELSE /\ alive' = Release(alive, "pipeline")
               /\ Panic
               /\ UNCHANGED << pipeline, last_result >>
    /\ UNCHANGED << current_frame, uniform_buffers, command_buffers, frame,
                    swapchain, render_pass, depth_buffer, teardown, calls,
                    ok_calls >>
    /\ UNCHANGED gpu_vars
    /\ UNCHANGED buffer_vars

\* ------------------------------------------------------------ App::cleanup
\* WindowEvent::CloseRequested: event_loop.exit(); run_app returns and App
\* is dropped at the end of main.
CloseRequested ==
    /\ pc = "idle"
    /\ pc' = "cleanup_wait_idle"
    /\ resize' = NoSize
    /\ UNCHANGED << current_frame, uniform_buffers, command_buffers, frame >>
    /\ UNCHANGED history_vars
    /\ UNCHANGED gpu_vars
    /\ UNCHANGED object_vars
    /\ UNCHANGED buffer_vars

\* The order in which App::cleanup releases (app.rs 213-241,
\* renderer.rs 229-237, render_pass.rs 163-170, swapchain.rs 233-240).
CleanupOrder ==
    << "mesh_buffers", "uniform_buffers", "descriptor_pool", "command_pool",
       "sync", "pipeline", "framebuffers", "render_pass", "image_views",
       "swapchain", "device", "surface", "instance" >>

\* App::cleanup, device_wait_idle().expect (app.rs 209-211).  When the
\* wait fails the `expect` panics inside Drop for App: during an unwind
\* the process aborts, otherwise the fields of App are dropped in
\* declaration order, which destroys the instance and then the device.
CleanupWaitIdle ==
    /\ pc = "cleanup_wait_idle"
    /\ \E r \in {"ok", "err"} :
          IF r = "ok"
          THEN /\ GpuIdle
               /\ pc' = "cleanup"
               /\ UNCHANGED << alive, teardown, panicking >>
          ELSE IF panicking
               THEN /\ pc' = "aborted"
                    /\ UNCHANGED << alive, teardown, panicking >>
               ELSE /\ pc' = "exited"
                    /\ panicking' = TRUE
                    /\ teardown' = << "instance", "device" >>
                    /\ alive' = ReleaseAll(alive, << "instance", "device" >>)
    /\ UNCHANGED << current_frame, uniform_buffers, command_buffers, frame,
                    resize, swapchain, render_pass, depth_buffer, pipeline >>
    /\ UNCHANGED gpu_vars
    /\ UNCHANGED history_vars
    /\ UNCHANGED buffer_vars

\* The rest of App::cleanup (app.rs 213-241)
Cleanup ==
    /\ pc = "cleanup"
    /\ alive' = ReleaseAll(alive, CleanupOrder)
    /\ teardown' = CleanupOrder
    /\ pc' = "exited"
    /\ UNCHANGED << current_frame, uniform_buffers, command_buffers, frame,
                    resize, swapchain, render_pass, depth_buffer, pipeline,
                    panicking >>
    /\ UNCHANGED gpu_vars
    /\ UNCHANGED history_vars
    /\ UNCHANGED buffer_vars

\* ------------------------------------------------------ Buffer functions
UploadCalls ==
    { [fn |-> "upload_data", self |-> [size |-> size], size_of |-> e,
       len |-> n, result |-> "pending", ops |-> << >>] :
         size \in BufferSizes, e \in ElementSizes, n \in Lens }

UploadData ==
    /\ call.fn = "upload_data"
    /\ call.result = "pending"
    /\ \E map_ok \in BOOLEAN :
          LET r == upload_data(call.self, call.size_of, call.len, map_ok) IN
          call' = [call EXCEPT !.result = r.result, !.ops = r.ops]
    /\ UNCHANGED << pc, current_frame, uniform_buffers, command_buffers,
                    frame, resize, mesh_buffers >>
    /\ UNCHANGED gpu_vars
    /\ UNCHANGED object_vars
    /\ UNCHANGED history_vars

\* Buffer::find_memory_type(instance, physical_device, type_filter,
\* properties).  `mem_properties` is what
\* get_physical_device_memory_properties returns: memory_type_count and the
\* property flags of each memory type (memory type i is memory_types[i + 1]).
MemoryPropertyFlags == SUBSET { "DEVICE_LOCAL", "HOST_VISIBLE" }

RECURSIVE MemoryTypeLists(_)
MemoryTypeLists(n) ==
    IF n = 0 THEN { << >> }
    ELSE LET shorter == MemoryTypeLists(n - 1) IN
         shorter \cup { Append(l, f) : l \in { m \in shorter : Len(m) = n - 1 },
                                       f \in MemoryPropertyFlags }

PhysicalDeviceMemoryProperties ==
    { [memory_type_count |-> Len(l), memory_types |-> l] :
         l \in MemoryTypeLists(MaxTypes) }

\* (type_filter & (1 << i)) != 0
has_type(type_filter, i) == (type_filter \div (2 ^ i)) % 2 = 1

RECURSIVE find_memory_type_from(_, _, _, _)
find_memory_type_from(i, mem_properties, type_filter, properties) ==
    IF i >= mem_properties.memory_type_count
    THEN [result |-> "err", index |-> -1]
    ELSE LET has_properties ==
                 properties \subseteq mem_properties.memory_types[i + 1]
         IN IF has_type(type_filter, i) /\ has_properties
            THEN [result |-> "ok", index |-> i]
            ELSE find_memory_type_from(i + 1, mem_properties, type_filter,
                                       properties)

find_memory_type_Last(mem_properties, type_filter, properties) ==
    LET found == { i \in 0 .. mem_properties.memory_type_count - 1 :
                      /\ has_type(type_filter, i)
                      /\ properties \subseteq mem_properties.memory_types[i + 1] }
    IN IF found = { } THEN [result |-> "err", index |-> -1]
       ELSE [result |-> "ok",
             index |-> CHOOSE i \in found : \A j \in found : j <= i]

find_memory_type(mem_properties, type_filter, properties) ==
    find_memory_type_from(0, mem_properties, type_filter, properties)

FindMemoryTypeCalls ==
    { [fn |-> "find_memory_type", mem_properties |-> m, type_filter |-> t,
       properties |-> f, result |-> "pending", index |-> -1] :
         m \in PhysicalDeviceMemoryProperties,
         t \in 0 .. 2 ^ MaxTypes - 1,
         f \in MemoryPropertyFlags }

FindMemoryType ==
    /\ call.fn = "find_memory_type"
    /\ call.result = "pending"
    /\ LET r == find_memory_type(call.mem_properties, call.type_filter,
                                 call.properties) IN
       call' = [call EXCEPT !.result = r.result, !.index = r.index]
    /\ UNCHANGED << pc, current_frame, uniform_buffers, command_buffers,
                    frame, resize, mesh_buffers >>
    /\ UNCHANGED gpu_vars
    /\ UNCHANGED object_vars
    /\ UNCHANGED history_vars

\* ------------------------------------------- VulkanSwapchain::new, pure part
\* Ord::clamp (min <= max is its precondition)
Clamp(v, min, max) == IF v < min THEN min ELSE IF v > max THEN max ELSE v

Extents == [width : 0 .. U32_MAX, height : 0 .. U32_MAX]

\* VulkanSwapchain::choose_swap_extent
choose_swap_extent(capabilities, window_width, window_height) ==
    IF capabilities.current_extent.width # U32_MAX
    THEN capabilities.current_extent
    ELSE [width |-> Clamp(window_width,
                          capabilities.min_image_extent.width,
                          capabilities.max_image_extent.width),
          height |-> Clamp(window_height,
                           capabilities.max_image_extent.height,
                           capabilities.max_image_extent.height)]

\* The surface capabilities choose_swap_extent reads: min_image_extent is
\* at most max_image_extent in both dimensions.
ExtentCapabilities ==
    { c \in [current_extent : Extents, min_image_extent : Extents,
             max_image_extent : Extents] :
         /\ c.min_image_extent.width <= c.max_image_extent.width
         /\ c.min_image_extent.height <= c.max_image_extent.height }

ChooseSwapExtentCalls ==
    { [fn |-> "choose_swap_extent", capabilities |-> c, window_width |-> w,
       window_height |-> h, result |-> "pending", extent |-> NoSize] :
         c \in ExtentCapabilities, w \in 0 .. U32_MAX, h \in 0 .. U32_MAX }

ChooseSwapExtent ==
    /\ call.fn = "choose_swap_extent"
    /\ call.result = "pending"
    /\ call' = [call EXCEPT
                   !.result = "ok",
                   !.extent = choose_swap_extent(call.capabilities,
                                                 call.window_width,
                                                 call.window_height)]
    /\ UNCHANGED << pc, current_frame, uniform_buffers, command_buffers,
                    frame, resize, mesh_buffers >>
    /\ UNCHANGED gpu_vars
    /\ UNCHANGED object_vars
    /\ UNCHANGED history_vars

\* image_count of VulkanSwapchain::new (swapchain.rs 32-37)
image_count_Unclamped(capabilities) == capabilities.min_image_count + 1

image_count(capabilities) ==
    LET count == capabilities.min_image_count + 1 IN
    IF capabilities.max_image_count > 0
         /\ count > capabilities.max_image_count
    THEN capabilities.max_image_count
    ELSE count

\* The image counts a surface reports: min_image_count is at least 1 and
\* max_image_count is 0 (no limit) or at least min_image_count.
ImageCountCapabilities ==
    { c \in [min_image_count : 1 .. MaxMinImageCount,
             max_image_count : 0 .. MaxMinImageCount + 1] :
         c.max_image_count = 0 \/ c.max_image_count >= c.min_image_count }

ImageCountCalls ==
    { [fn |-> "image_count", capabilities |-> c, result |-> "pending",
       image_count |-> 0] : c \in ImageCountCapabilities }

ImageCount ==
    /\ call.fn = "image_count"
    /\ call.result = "pending"
    /\ call' = [call EXCEPT !.result = "ok",
                            !.image_count = image_count(call.capabilities)]
    /\ UNCHANGED << pc, current_frame, uniform_buffers, command_buffers,
                    frame, resize, mesh_buffers >>
    /\ UNCHANGED gpu_vars
    /\ UNCHANGED object_vars
    /\ UNCHANGED history_vars

\* ----------------------------------------------------------------- Texture
\* One Vulkan call of a single-time command sequence and whether it
\* succeeded
VkCall(name, ok) == [op |-> name, ok |-> ok]

ImageLayouts ==
    { "UNDEFINED", "GENERAL", "COLOR_ATTACHMENT_OPTIMAL",
      "TRANSFER_SRC_OPTIMAL", "TRANSFER_DST_OPTIMAL",
      "SHADER_READ_ONLY_OPTIMAL" }

\* The fallible Vulkan calls of transition_layout, in order; 0 stands for
\* none failing.
TransitionSteps ==
    << "allocate_command_buffers", "begin_command_buffer",
       "end_command_buffer", "queue_submit", "queue_wait_idle" >>
TransitionFailPoints == 0 .. Len(TransitionSteps)

\* Texture::begin_single_time_commands
begin_single_time_commands(fail_at) ==
    IF fail_at = 1
    THEN [result |-> "err",
          ops |-> << VkCall("allocate_command_buffers", FALSE) >>]
    ELSE IF fail_at = 2
    THEN [result |-> "err",
          ops |-> << VkCall("allocate_command_buffers", TRUE),
                     VkCall("begin_command_buffer", FALSE) >>]
    ELSE [result |-> "ok",
          ops |-> << VkCall("allocate_command_buffers", TRUE),
                     VkCall("begin_command_buffer", TRUE) >>]

\* Texture::end_single_time_commands
end_single_time_commands(fail_at) ==
    IF fail_at = 3
    THEN [result |-> "err", ops |-> << VkCall("end_command_buffer", FALSE) >>]
    ELSE IF fail_at = 4
    THEN [result |-> "err",
          ops |-> << VkCall("end_command_buffer", TRUE),
                     VkCall("queue_submit", FALSE) >>]
    ELSE IF fail_at = 5
    THEN [result |-> "err",
          ops |-> << VkCall("end_command_buffer", TRUE),
                     VkCall("queue_submit", TRUE),
                     VkCall("queue_wait_idle", FALSE) >>]
    ELSE [result |-> "ok",
          ops |-> << VkCall("end_command_buffer", TRUE),
                     VkCall("queue_submit", TRUE),
                     VkCall("queue_wait_idle", TRUE),
                     VkCall("free_command_buffers", TRUE) >>]

\* the two arms of the match that are not `_`
SupportedTransition(old_layout, new_layout) ==
    \/ old_layout = "UNDEFINED" /\ new_layout = "TRANSFER_DST_OPTIMAL"
    \/ old_layout = "TRANSFER_DST_OPTIMAL"
          /\ new_layout = "SHADER_READ_ONLY_OPTIMAL"

\* Texture::transition_layout: the command buffer is allocated and begun
\* first, the layouts are matched after that.
transition_layout(old_layout, new_layout, fail_at) ==
    LET cmd == begin_single_time_commands(fail_at)
        end == end_single_time_commands(fail_at)
    IN  IF cmd.result = "err" THEN cmd
        ELSE IF ~SupportedTransition(old_layout, new_layout)
        THEN [result |-> "err", ops |-> cmd.ops]
        ELSE [result |-> end.result,
              ops |-> cmd.ops \o << VkCall("cmd_pipeline_barrier", TRUE) >>
                         \o end.ops]

TransitionLayoutCalls ==
    { [fn |-> "transition_layout", old_layout |-> o, new_layout |-> n,
       result |-> "pending", ops |-> << >>] :
         o \in ImageLayouts, n \in ImageLayouts }

TransitionLayout ==
    /\ call.fn = "transition_layout"
    /\ call.result = "pending"
    /\ \E fail_at \in TransitionFailPoints :
          LET r == transition_layout(call.old_layout, call.new_layout, fail_at)
          IN  call' = [call EXCEPT !.result = r.result, !.ops = r.ops]
    /\ UNCHANGED << pc, current_frame, uniform_buffers, command_buffers,
                    frame, resize, mesh_buffers >>
    /\ UNCHANGED gpu_vars
    /\ UNCHANGED object_vars
    /\ UNCHANGED history_vars

\* Texture::copy_buffer_to_image: a one-shot command buffer with one
\* cmd_copy_buffer_to_image
copy_buffer_to_image(fail_at) ==
    LET cmd == begin_single_time_commands(fail_at)
        end == end_single_time_commands(fail_at)
    IN  IF cmd.result = "err" THEN cmd
        ELSE [result |-> end.result,
              ops |-> cmd.ops \o << VkCall("cmd_copy_buffer_to_image", TRUE) >>
                         \o end.ops]

\* Bytes per pixel of img.to_rgb8().into_raw(), and bytes per texel of
\* vk::Format::R8G8B8A8_SRGB, the format of the image the buffer is
\* copied to.
SizeOfRgb8Pixel == 3
SizeOfR8G8B8A8Texel == 4

\* The steps of Texture::new that can fail, in order.  A failure is a step
\* and, for the three one-shot command sequences, the Vulkan call in it;
\* step 0 stands for none failing.
TextureSteps ==
    << "open", "staging_new", "upload_data", "create_image",
       "transition_to_transfer_dst", "copy_buffer_to_image",
       "transition_to_shader_read_only", "create_image_view",
       "create_sampler" >>
OneShotSteps == { 5, 6, 7 }
TextureFailures ==
    { [step |-> 0, at |-> 0] }
    \cup { [step |-> k, at |-> a] :
              k \in (1 .. Len(TextureSteps)) \ OneShotSteps, a \in { 0 } }
    \cup { [step |-> k, at |-> a] :
              k \in OneShotSteps, a \in 1 .. Len(TransitionSteps) }

\* Texture::new for an image of width x height pixels.  `ops` lists the
\* calls made, with the number of bytes each one writes to or reads from
\* the staging buffer.
Texture_new(width, height, fail) ==
    LET pixels == width * height * SizeOfRgb8Pixel
        size == width * height * 4
        staging ==
            Buffer_new(size, { "TRANSFER_SRC" },
                       { "HOST_VISIBLE", "HOST_COHERENT" })
        upload == upload_data(staging, 1, pixels, fail.step # 3)
        At(k) == IF fail.step = k THEN fail.at ELSE 0
        t1 == transition_layout("UNDEFINED", "TRANSFER_DST_OPTIMAL", At(5))
        cp == copy_buffer_to_image(At(6))
        t2 == transition_layout("TRANSFER_DST_OPTIMAL",
                                "SHADER_READ_ONLY_OPTIMAL", At(7))
        op2 == [op |-> "new", buffer |-> staging]
        op3 == [op |-> "upload_data", buffer |-> staging, size |-> pixels,
                ops |-> upload.ops]
        op4 == [op |-> "create_image", width |-> width, height |-> height]
        op5 == [op |-> "transition_layout", ops |-> t1.ops]
        op6 == [op |-> "copy_buffer_to_image", src |-> staging,
                size |-> width * height * SizeOfR8G8B8A8Texel,
                ops |-> cp.ops]
        op7 == [op |-> "transition_layout", ops |-> t2.ops]
        op8 == [op |-> "cleanup", buffer |-> staging]
        op9 == [op |-> "create_image_view"]
        op10 == [op |-> "create_sampler"]
        Err(ops) == [result |-> "err", ops |-> ops]
    IN  IF fail.step \in { 1, 2 } THEN Err(<< >>)
        ELSE IF upload.result = "err" THEN Err(<< op2, op3 >>)
        ELSE IF fail.step = 4 THEN Err(<< op2, op3 >>)
        ELSE IF t1.result = "err" THEN Err(<< op2, op3, op4, op5 >>)
        ELSE IF cp.result = "err" THEN Err(<< op2, op3, op4, op5, op6 >>)
        ELSE IF t2.result = "err"
        THEN Err(<< op2, op3, op4, op5, op6, op7 >>)
        ELSE IF fail.step = 8
        THEN Err(<< op2, op3, op4, op5, op6, op7, op8 >>)
        ELSE IF fail.step = 9
        THEN Err(<< op2, op3, op4, op5, op6, op7, op8, op9 >>)
        ELSE [result |-> "ok",
              ops |-> << op2, op3, op4, op5, op6, op7, op8, op9, op10 >>]

TextureCalls ==
    { [fn |-> "Texture::new", width |-> w, height |-> h,
       result |-> "pending", ops |-> << >>] :
         w \in 1 .. MaxDim, h \in 1 .. MaxDim }

TextureNew ==
    /\ call.fn = "Texture::new"
    /\ call.result = "pending"
    /\ \E fail \in TextureFailures :
          LET r == Texture_new(call.width, call.height, fail)
          IN  call' = [call EXCEPT !.result = r.result, !.ops = r.ops]
    /\ UNCHANGED << pc, current_frame, uniform_buffers, command_buffers,
                    frame, resize, mesh_buffers >>
    /\ UNCHANGED gpu_vars
    /\ UNCHANGED object_vars
    /\ UNCHANGED history_vars

\* ------------------------------ VulkanRenderPass::recreate_framebuffers
\* recreate_framebuffers(&mut self, device, image_views, extent,
\* depth_buffer): destroy_framebuffer on every element of
\* self.framebuffers, then create_framebuffers, whose create_framebuffer
\* calls stop at the first failure (fail_at, 0 when none fails); the `?`
\* returns before self.framebuffers is assigned.
recreate_framebuffers_NoDestroy(self, views, extent, depth, fail_at) ==
    LET new == create_framebuffers(views, extent, depth)
        created(n) ==
            [i \in 1 .. n |->
                [op |-> "create_framebuffer", framebuffer |-> new[i],
                 ok |-> i # fail_at]]
    IN  IF fail_at \in 1 .. Len(views)
        THEN [result |-> "err", self |-> self, ops |-> created(fail_at)]
        ELSE [result |-> "ok",
              self |-> [self EXCEPT !.framebuffers = new],
              ops |-> created(Len(views))]

recreate_framebuffers(self, views, extent, depth, fail_at) ==
    LET destroyed ==
            [i \in 1 .. Len(self.framebuffers) |->
                [op |-> "destroy_framebuffer",
                 framebuffer |-> self.framebuffers[i], ok |-> TRUE]]
        new == create_framebuffers(views, extent, depth)
        created(n) ==
            [i \in 1 .. n |->
                [op |-> "create_framebuffer", framebuffer |-> new[i],
                 ok |-> i # fail_at]]
    IN  IF fail_at \in 1 .. Len(views)
        THEN [result |-> "err", self |-> self,
              ops |-> destroyed \o created(fail_at)]
        ELSE [result |-> "ok",
              self |-> [self EXCEPT !.framebuffers = new],
              ops |-> destroyed \o created(Len(views))]

\* A render pass whose framebuffers were built for a swapchain of `old`
\* images, handed the views and the extent of a recreated swapchain of
\* `new` images and the depth buffer.
RecreateFramebuffersCalls ==
    { [fn |-> "recreate_framebuffers",
       before |-> [render_pass |-> "render_pass",
                   framebuffers |->
                      create_framebuffers(image_views(NewSwapchain(0, old)),
                                          swapchain_extent(NewSwapchain(0, old)),
                                          DepthBuffer_new(NewSwapchain(0, old)))],
       self |-> [render_pass |-> "render_pass",
                 framebuffers |->
                    create_framebuffers(image_views(NewSwapchain(0, old)),
                                        swapchain_extent(NewSwapchain(0, old)),
                                        DepthBuffer_new(NewSwapchain(0, old)))],
       image_views |-> image_views(NewSwapchain(1, new)),
       extent |-> swapchain_extent(NewSwapchain(1, new)),
       depth_buffer |-> DepthBuffer_new(NewSwapchain(0, old)),
       result |-> "pending",
       ops |-> << >>] : old \in 0 .. MaxViews, new \in 0 .. MaxViews }

RecreateFramebuffersCall ==
    /\ call.fn = "recreate_framebuffers"
    /\ call.result = "pending"
    /\ \E fail_at \in 0 .. Len(call.image_views) :
          LET r == recreate_framebuffers(call.self, call.image_views,
                                         call.extent, call.depth_buffer,
                                         fail_at)
          IN  call' = [call EXCEPT !.result = r.result, !.self = r.self,
                                   !.ops = r.ops]
    /\ UNCHANGED << pc, current_frame, uniform_buffers, command_buffers,
                    frame, resize, mesh_buffers >>
    /\ UNCHANGED gpu_vars
    /\ UNCHANGED object_vars
    /\ UNCHANGED history_vars

\* ------------------------------------------------------ VulkanPipeline::new
\* The fallible steps of ShaderModule::from_file, in order
FromFileSteps == << "open", "read_to_end", "create_shader_module" >>

\* ShaderModule::from_file(path); fail_at is the step that fails, 0 or a
\* number above Len(FromFileSteps) when none does.  The module exists
\* only when create_shader_module succeeded.
ShaderModule_from_file(path, fail_at) ==
    IF fail_at \in 1 .. Len(FromFileSteps)
    THEN [ok |-> FALSE,
          ops |-> IF FromFileSteps[fail_at] = "create_shader_module"
                  THEN << [op |-> "create_shader_module", module |-> path,
                           ok |-> FALSE] >>
                  ELSE << >>]
    ELSE [ok |-> TRUE,
          ops |-> << [op |-> "create_shader_module", module |-> path,
                      ok |-> TRUE] >>]

\* ShaderModule::cleanup
ShaderModule_cleanup(path) ==
    [op |-> "destroy_shader_module", module |-> path, ok |-> TRUE]

\* The fallible steps of VulkanPipeline::new, in order: the three of each
\* from_file, then the three create calls; 0 stands for none failing.
PipelineSteps ==
    << "vert open", "vert read_to_end", "vert create_shader_module",
       "frag open", "frag read_to_end", "frag create_shader_module",
       "create_descriptor_set_layout", "create_pipeline_layout",
       "create_graphics_pipelines" >>
PipelineFailPoints == 0 .. Len(PipelineSteps)

\* VulkanPipeline::new(device, render_pass, extent): every step returns
\* early with `?` on failure; the shader modules are cleaned up at step 5
\* only.  ShaderModule's Drop is empty.
VulkanPipeline_new_calls(extent, fail_at) ==
    LET vert == ShaderModule_from_file("shaders/shader.vert.spv", fail_at)
        frag == ShaderModule_from_file("shaders/shader.frag.spv", fail_at - 3)
        layout == VkCall("create_descriptor_set_layout", fail_at # 7)
        pipeline_layout == VkCall("create_pipeline_layout", fail_at # 8)
        graphics == [op |-> "create_graphics_pipelines", extent |-> extent,
                     ok |-> fail_at # 9]
    IN  IF ~vert.ok THEN [result |-> "err", ops |-> vert.ops]
        ELSE IF ~frag.ok THEN [result |-> "err", ops |-> vert.ops \o frag.ops]
        ELSE IF ~layout.ok
        THEN [result |-> "err", ops |-> vert.ops \o frag.ops \o << layout >>]
        ELSE IF ~pipeline_layout.ok
        THEN [result |-> "err",
              ops |-> vert.ops \o frag.ops \o << layout, pipeline_layout >>]
        ELSE IF ~graphics.ok
        THEN [result |-> "err",
              ops |-> vert.ops \o frag.ops
                         \o << layout, pipeline_layout, graphics >>]
        ELSE [result |-> "ok",
              ops |-> vert.ops \o frag.ops
                         \o << layout, pipeline_layout, graphics,
                               ShaderModule_cleanup("shaders/shader.vert.spv"),
                               ShaderModule_cleanup("shaders/shader.frag.spv") >>]

PipelineCalls ==
    { [fn |-> "VulkanPipeline::new", extent |-> e, result |-> "pending",
       ops |-> << >>] : e \in Extents }

PipelineNew ==
    /\ call.fn = "VulkanPipeline::new"
    /\ call.result = "pending"
    /\ \E fail_at \in PipelineFailPoints :
          LET r == VulkanPipeline_new_calls(call.extent, fail_at)
          IN  call' = [call EXCEPT !.result = r.result, !.ops = r.ops]
    /\ UNCHANGED << pc, current_frame, uniform_buffers, command_buffers,
                    frame, resize, mesh_buffers >>
    /\ UNCHANGED gpu_vars
    /\ UNCHANGED object_vars
    /\ UNCHANGED history_vars

\* -------------------------------------------------------------- parser/obj
\* handle_obj_index: OBJ indices are 1-based; 0 and negative are errors
handle_obj_index(idx) ==
    IF idx > 0 THEN [ok |-> TRUE, value |-> idx - 1]
    ELSE [ok |-> FALSE, value |-> 0]

\* parse_face_vertex on a token that holds a position index only
\* ("f 1 2 3"): no texture and no normal index
parse_face_vertex(token) ==
    LET position_idx == handle_obj_index(token)
    IN  [ok |-> position_idx.ok,
         value |-> [position_idx |-> position_idx.value,
                    tex_coord_idx |-> "None", normal_idx |-> "None"]]

\* triangulate_face: a triangle is kept; otherwise for i in
\* 1 .. len - 2 the triangle (vertices[0], vertices[i], vertices[i + 1])
triangulate_face_Strip(vertices) ==
    [i \in 1 .. Len(vertices) - 2 |->
        [vertices |-> << vertices[i], vertices[i + 1], vertices[i + 2] >>]]

triangulate_face(vertices) ==
    IF Len(vertices) = 3
    THEN << [vertices |-> vertices] >>
    ELSE [i \in 1 .. Len(vertices) - 2 |->
             [vertices |-> << vertices[1], vertices[i + 1], vertices[i + 2] >>]]

\* parse_face(tokens, faces): tokens[1 ..] are the tokens after "f";
\* fewer than three is an error, as is any token parse_face_vertex rejects
parse_face(tokens, faces) ==
    IF Len(tokens) < 3 THEN [ok |-> FALSE, faces |-> faces]
    ELSE IF \E i \in 1 .. Len(tokens) : ~parse_face_vertex(tokens[i]).ok
    THEN [ok |-> FALSE, faces |-> faces]
    ELSE [ok |-> TRUE,
          faces |-> faces \o triangulate_face(
                       [i \in 1 .. Len(tokens) |->
                           parse_face_vertex(tokens[i]).value])]

\* VertexKey::quantize, (f * 10000.0).round(), on whole coordinates
quantize(f) == f * 10000

\* VertexKey::from_vertex: the colour is not part of the key
VertexKey_from_vertex(v) ==
    [position |-> [i \in 1 .. 3 |-> quantize(v.position[i])],
     tex_coords |-> [i \in 1 .. 2 |-> quantize(v.tex_coords[i])],
     normal |-> [i \in 1 .. 3 |-> quantize(v.normal[i])]]

\* generate_face_color: one of six shades, by face index; the model keeps
\* which
generate_face_color(face_index) == face_index % 6

\* compute_face_normal for positions with z = 0 and whole coordinates:
\* the cross product of the two edges is (0, 0, n), its length |n|
\* exceeds 0.0001 exactly when n # 0
compute_face_normal(obj, face) ==
    IF Len(face.vertices) < 3 THEN << 0, 1, 0 >>
    ELSE LET v0 == obj.positions[face.vertices[1].position_idx + 1]
             v1 == obj.positions[face.vertices[2].position_idx + 1]
             v2 == obj.positions[face.vertices[3].position_idx + 1]
             edge1 == << v1[1] - v0[1], v1[2] - v0[2], v1[3] - v0[3] >>
             edge2 == << v2[1] - v0[1], v2[2] - v0[2], v2[3] - v0[3] >>
             n == edge1[1] * edge2[2] - edge1[2] * edge2[1]
         IN  IF n > 0 THEN << 0, 0, 1 >>
             ELSE IF n < 0 THEN << 0, 0, -1 >>
             ELSE << 0, 1, 0 >>

\* The loops of obj_to_mesh from face f, face vertex k on: a vertex whose
\* key is in the cache gets the cached index, a new one is pushed and
\* gets vertices.len() as its index.
RECURSIVE obj_to_mesh_from(_, _, _, _, _)
obj_to_mesh_from(obj, f, k, vertices, indices) ==
    IF f > Len(obj.faces) THEN [vertices |-> vertices, indices |-> indices]
    ELSE IF k > Len(obj.faces[f].vertices)
    THEN obj_to_mesh_from(obj, f + 1, 1, vertices, indices)
    ELSE LET face == obj.faces[f]
             vertex == [position |-> obj.positions[face.vertices[k].position_idx + 1],
                        tex_coords |-> << 0, 0 >>,
                        normal |-> compute_face_normal(obj, face),
                        color |-> generate_face_color(f - 1)]
             cached == { i \in 1 .. Len(vertices) :
                           VertexKey_from_vertex(vertices[i])
                              = VertexKey_from_vertex(vertex) }
         IN  IF cached = {}
             THEN obj_to_mesh_from(obj, f, k + 1, Append(vertices, vertex),
                                   Append(indices, Len(vertices)))
             ELSE obj_to_mesh_from(obj, f, k + 1, vertices,
                                   Append(indices, (CHOOSE i \in cached : TRUE) - 1))

\* obj_to_mesh: indexing obj.positions out of bounds panics
obj_to_mesh(obj) ==
    IF \E f \in 1 .. Len(obj.faces) : \E k \in 1 .. Len(obj.faces[f].vertices) :
          obj.faces[f].vertices[k].position_idx >= Len(obj.positions)
    THEN [result |-> "panic", mesh |-> NoMesh]
    ELSE [result |-> "ok",
          mesh |-> obj_to_mesh_from(obj, 1, 1, << >>, << >>)]

\* The `v` lines of the file: the corners of the unit square of
\* tests::quad_becomes_two_triangles, repeated
ObjPositions ==
    [i \in 1 .. MaxPositions |->
        << << 0, 0, 0 >>, << 1, 0, 0 >>, << 1, 1, 0 >>, << 0, 1, 0 >> >>
           [((i - 1) % 4) + 1]]

\* One `f` line after the `v` lines: up to MaxFaceLen position indices,
\* among them 0, a negative one and one past the last position
FaceTokens == -1 .. MaxPositions + 1
FaceLines ==
    UNION { [1 .. n -> FaceTokens] : n \in 0 .. MaxFaceLen }

LoadObjCalls ==
    { [fn |-> "load_obj", tokens |-> t, result |-> "pending",
       faces |-> << >>, mesh |-> NoMesh] : t \in FaceLines }

\* parse_obj_from_string on the `v` lines and the `f` line, then
\* obj_to_mesh (load_obj, and `.map(obj_to_mesh)` in the tests)
LoadObj ==
    /\ call.fn = "load_obj"
    /\ call.result = "pending"
    /\ LET parsed == parse_face(call.tokens, << >>)
           obj == [positions |-> ObjPositions, faces |-> parsed.faces]
       IN  IF ~parsed.ok
           THEN call' = [call EXCEPT !.result = "err"]
           ELSE call' = [call EXCEPT !.result = obj_to_mesh(obj).result,
                                     !.faces = parsed.faces,
                                     !.mesh = obj_to_mesh(obj).mesh]
    /\ UNCHANGED << pc, current_frame, uniform_buffers, command_buffers,
                    frame, resize, mesh_buffers >>
    /\ UNCHANGED gpu_vars
    /\ UNCHANGED object_vars
    /\ UNCHANGED history_vars

\* ------------------------------------------------------ Renderer::load_mesh
\* load_mesh up to the call of from_mesh: the previous MeshBuffers, if
\* any, is cleaned up (vertex buffer, then index buffer) at once.
LoadMesh ==
    /\ pc = "idle"
    /\ mesh_buffers.gen < MaxLoads
    /\ \E mesh \in Meshes :
          call' = [fn |-> "load_mesh", mesh |-> mesh, result |-> "pending",
                   ops |-> << >>]
    /\ alive' = IF mesh_buffers = NoMesh THEN alive
                ELSE Release(alive, "mesh_buffers")
    /\ pc' = "from_mesh"
    /\ resize' = NoSize
    /\ UNCHANGED << current_frame, uniform_buffers, command_buffers, frame,
                    mesh_buffers, swapchain, render_pass, depth_buffer,
                    pipeline, teardown, panicking >>
    /\ UNCHANGED gpu_vars
    /\ UNCHANGED history_vars

\* MeshBuffers::from_mesh and the rest of load_mesh.  Each copy_buffer
\* submits to the graphics queue and waits for that queue to be idle, so
\* a successful from_mesh ends with the graphics queue drained.  On Err
\* the `?` returns with self.mesh_buffers still holding the MeshBuffers
\* that was cleaned up.
FromMesh ==
    /\ pc = "from_mesh"
    /\ \E fail_vertex \in FailPoints, fail_index \in FailPoints :
          LET r == from_mesh(mesh_buffers.gen + 1, call.mesh, fail_vertex,
                             fail_index)
          IN  /\ call' = [call EXCEPT !.result = r.result, !.ops = r.ops]
              /\ IF r.result = "ok"
                 THEN /\ graphics_queue = << >>
                      /\ mesh_buffers' = r.mesh_buffers
                      /\ alive' = [alive EXCEPT !["mesh_buffers"] = "live"]
                 ELSE UNCHANGED << mesh_buffers, alive >>
    /\ pc' = "idle"
    /\ UNCHANGED << current_frame, uniform_buffers, command_buffers, frame,
                    resize, swapchain, render_pass, depth_buffer,
                    pipeline, teardown, panicking >>
    /\ UNCHANGED gpu_vars
    /\ UNCHANGED history_vars

\* ---------------------------------------------------------- specification
Next ==
    \/ RedrawRequested
    \/ WaitForFences
    \/ AcquireNextImage
    \/ ResetFences
    \/ UpdateUniformBuffer
    \/ RecordCommandBuffer
    \/ QueueSubmit
    \/ QueuePresent
    \/ ImageAvailable
    \/ GpuExecute
    \/ PresentExecute
    \/ Resized
    \/ ResizedArm
    \/ RecreateWaitIdle
    \/ SwapchainCleanup
    \/ SwapchainNew
    \/ RecreateFramebuffers
    \/ RecreatePipeline
    \/ CloseRequested
    \/ CleanupWaitIdle
    \/ Cleanup

Spec == Init /\ [][Next]_vars

\* Buffer::upload_data on every buffer size and slice of the bounds
UploadInit ==
    /\ App_resumed
    /\ call \in UploadCalls

UploadNext == UploadData

UploadSpec == UploadInit /\ [][UploadNext]_vars

\* Buffer::find_memory_type on every device, filter and flags of the bounds
FindMemoryTypeInit ==
    /\ App_resumed
    /\ call \in FindMemoryTypeCalls

FindMemoryTypeNext == FindMemoryType

FindMemoryTypeSpec == FindMemoryTypeInit /\ [][FindMemoryTypeNext]_vars

\* Texture::transition_layout on every pair of layouts
TransitionLayoutInit ==
    /\ App_resumed
    /\ call \in TransitionLayoutCalls

TransitionLayoutNext == TransitionLayout

TransitionLayoutSpec == TransitionLayoutInit /\ [][TransitionLayoutNext]_vars

\* choose_swap_extent on every surface and window size of the bounds
ChooseSwapExtentInit ==
    /\ App_resumed
    /\ call \in ChooseSwapExtentCalls

ChooseSwapExtentNext == ChooseSwapExtent

ChooseSwapExtentSpec == ChooseSwapExtentInit /\ [][ChooseSwapExtentNext]_vars

\* the image count on every surface of the bounds
ImageCountInit ==
    /\ App_resumed
    /\ call \in ImageCountCalls

ImageCountNext == ImageCount

ImageCountSpec == ImageCountInit /\ [][ImageCountNext]_vars

\* recreate_framebuffers on every pair of framebuffer and view counts
RecreateFramebuffersCallInit ==
    /\ App_resumed
    /\ call \in RecreateFramebuffersCalls

RecreateFramebuffersCallNext == RecreateFramebuffersCall

RecreateFramebuffersCallSpec ==
    RecreateFramebuffersCallInit /\ [][RecreateFramebuffersCallNext]_vars

\* load_obj on every face line of the bounds
LoadObjInit ==
    /\ App_resumed
    /\ call \in LoadObjCalls

LoadObjNext == LoadObj

LoadObjSpec == LoadObjInit /\ [][LoadObjNext]_vars

\* VulkanPipeline::new on every extent of the bounds
PipelineInit ==
    /\ App_resumed
    /\ call \in PipelineCalls

PipelineNext == PipelineNew

PipelineSpec == PipelineInit /\ [][PipelineNext]_vars

\* Texture::new on every image size of the bounds
TextureInit ==
    /\ App_resumed
    /\ call \in TextureCalls

TextureNext == TextureNew

TextureSpec == TextureInit /\ [][TextureNext]_vars

\* Renderer::load_mesh called on the renderer App::resumed leaves
LoadMeshNext ==
    \/ LoadMesh
    \/ FromMesh

LoadMeshSpec == Init /\ [][LoadMeshNext]_vars

\* The Renderer's interface: draw_frame and load_mesh called in any order
\* from the event-loop thread, the queues running beside them.
RendererNext ==
    \/ RedrawRequested
    \/ WaitForFences
    \/ AcquireNextImage
    \/ ResetFences
    \/ UpdateUniformBuffer
    \/ RecordCommandBuffer
    \/ QueueSubmit
    \/ QueuePresent
    \/ ImageAvailable
    \/ GpuExecute
    \/ PresentExecute
    \/ LoadMesh
    \/ FromMesh

RendererSpec == Init /\ [][RendererNext]_vars

TypeOK ==
    /\ current_frame \in Slots
    /\ in_flight_fences \in [Slots -> BOOLEAN]
    /\ Len(graphics_queue) <= MaxCalls
    /\ swapchain.count \in ImageCounts

\* ------------------------------------------------------------------ claims
DrawSteps ==
    { "wait_for_fences", "acquire_next_image", "reset_fences",
      "update_uniform_buffer", "record_command_buffer", "queue_submit",
      "queue_present" }

RecreateSteps ==
    { "swapchain_cleanup", "swapchain_new", "recreate_framebuffers",
      "recreate_pipeline" }

Batches == { graphics_queue[k] : k \in 1 .. Len(graphics_queue) }

\* C1 as stated: whenever no draw_frame call is running, the frame slot
\* equals (number of draw_frame calls made) mod MAX_FRAMES_IN_FLIGHT.
C1_SlotIsCallsMod ==
    pc \notin DrawSteps => current_frame = calls % MAX_FRAMES_IN_FLIGHT

\* C1 amended: the frame slot always equals (number of draw_frame calls
\* that returned Ok) mod MAX_FRAMES_IN_FLIGHT; a call that returns an
\* error leaves the slot where it was.
C1_SlotIsOkCallsMod ==
    current_frame = ok_calls % MAX_FRAMES_IN_FLIGHT

C1_Witness ==
    /\ pc = "idle"
    /\ calls = 3
    /\ ok_calls = 2
    /\ current_frame = 0

C3_RenderAfterImageAvailable ==
    [][ /\ Len(graphics_queue') < Len(graphics_queue)
           => images[command_buffers[Head(graphics_queue).cmd].framebuffer] = "ready"
        /\ \A b \in Batches : b.wait = {b.cmd} /\ b.fence = b.cmd ]_vars

\* C4: at most MAX_FRAMES_IN_FLIGHT batches are submitted and not
\* finished, no two of them on the same slot, and the fence of a slot with
\* a pending batch is unsignaled.
C4_FramesInFlightBounded ==
    /\ Len(graphics_queue) <= MAX_FRAMES_IN_FLIGHT
    /\ \A j, k \in 1 .. Len(graphics_queue) :
          j # k => graphics_queue[j].fence # graphics_queue[k].fence
    /\ \A b \in Batches : ~ in_flight_fences[b.fence]

C4_Witness ==
    /\ Len(graphics_queue) = MAX_FRAMES_IN_FLIGHT
    /\ calls = 3
    /\ pc = "wait_for_fences"

\* C5: a step writes the uniform buffer or the command buffer of a slot
\* only if that slot is the running call's slot and no submitted batch
\* that uses the slot's command buffer is pending; a recorded command
\* buffer binds the descriptor set of its own slot.
C5_SlotOwnsItsBuffers ==
    [][ \A s \in Slots :
           /\ ( (uniform_buffers'[s] /\ ~ uniform_buffers[s])
                \/ command_buffers'[s] # command_buffers[s] )
              => /\ s = frame.slot
                 /\ s = current_frame
                 /\ \A b \in Batches : b.cmd # s
           /\ command_buffers'[s].descriptor_set \in { NoSlot, s } ]_vars

C5_Witness ==
    /\ pc = "queue_submit"
    /\ frame.slot = 1
    /\ \E b \in Batches : b.cmd = 0
    /\ uniform_buffers[1]

\* A call runs on the slot current when it starts, and the slot changes
\* only when a call returns.
CallsUseCurrentSlot ==
    /\ pc' \in DrawSteps => frame'.slot = current_frame'
    /\ ~ (pc \in DrawSteps /\ pc' = "idle") => current_frame' = current_frame
    /\ \A k \in 1 .. Len(graphics_queue') :
          LET b == graphics_queue'[k]
          IN  b.fence = b.cmd /\ b.wait = {b.cmd} /\ b.signal = {b.cmd}

\* C6 as stated: every draw_frame call leaves a slot (fence, command
\* buffer, semaphores) to the next call that differs from its own, so no
\* two consecutive calls use the same fence.
C6_ConsecutiveCallsDistinctSlots ==
    [][ /\ CallsUseCurrentSlot
        /\ (pc \in DrawSteps /\ pc' = "idle") => current_frame' # frame.slot ]_vars

\* C6 amended: a draw_frame call that returns Ok leaves the other slot to
\* the next call; a call that fails leaves its own slot; every batch uses
\* the fence, the command buffer and the semaphores of its call's slot.
C6_SlotChangesAfterOk ==
    [][ /\ CallsUseCurrentSlot
        /\ (pc \in DrawSteps /\ pc' = "idle")
              => IF ok_calls' > ok_calls
                 THEN current_frame' # frame.slot
                 ELSE current_frame' = frame.slot ]_vars

C6_Witness ==
    /\ pc = "queue_present"
    /\ calls = 2
    /\ ok_calls = 1
    /\ frame.slot = 1
    /\ \E b \in Batches : b.fence = 0
    /\ \E b \in Batches : b.fence = 1

\* C7 as stated: when the acquire reports out-of-date the call submits and
\* presents nothing, and the swapchain is recreated before another frame
\* is started.
C7_RecreateAfterAcquireOutOfDate ==
    [][ /\ (pc = "acquire_next_image" /\ pc' = "idle")
           => UNCHANGED << graphics_queue, present_queue >>
        /\ (pc = "idle" /\ pc' = "wait_for_fences")
           => last_result # "acquire_out_of_date" ]_vars

\* C8 as stated: after a present that reported out-of-date or suboptimal
\* the swapchain is recreated before another frame is started.
C8_RecreateAfterPresentResult ==
    [][ (pc = "idle" /\ pc' = "wait_for_fences")
           => last_result \notin { "present_out_of_date", "present_suboptimal" } ]_vars

\* C9: a Resized event with a zero width or height changes nothing: the
\* handler is back in the event loop, and the swapchain, the framebuffers,
\* the pipeline, their native objects and the frame slot are as before.
C9_ZeroResizeIgnored ==
    [][ (pc = "resized" /\ pc' # "resized" /\ (resize[1] = 0 \/ resize[2] = 0))
           => /\ pc' = "idle"
              /\ UNCHANGED << swapchain, render_pass, depth_buffer, pipeline, alive,
                              current_frame, images, gpu_vars >> ]_vars

C9_Witness ==
    /\ pc = "idle"
    /\ resize = << 0, 1 >>
    /\ swapchain.id = 1
    /\ graphics_queue # << >>

\* C10: while handle_resize destroys and rebuilds (and whenever an image
\* view, swapchain, framebuffer or pipeline object is not live) no batch
\* and no present request is pending, and a batch is submitted only by a
\* draw_frame call, when no recreation is running and these objects live.
C10_NoFrameInFlightDuringRecreate ==
    [][ /\ pc' \in RecreateSteps => GpuIdle'
        /\ (\E o \in { "image_views", "swapchain", "framebuffers", "pipeline" } :
               alive'[o] # "live") => GpuIdle'
        /\ Len(graphics_queue') > Len(graphics_queue)
              => /\ pc = "queue_submit"
                 /\ pc' \notin RecreateSteps
                 /\ \A o \in { "image_views", "swapchain", "framebuffers", "pipeline" } :
                       alive[o] = "live" ]_vars

C10_Witness ==
    /\ pc = "recreate_pipeline"
    /\ ok_calls >= 2
    /\ swapchain.id = 1

\* C11: when handle_resize has run to its end at least once and the
\* handler is back in the event loop, there are as many framebuffers as
\* swapchain image views and framebuffer i binds image view i of the
\* current swapchain.
C11_FramebufferPerImageView ==
    (pc = "idle" /\ swapchain.id >= 1)
       => /\ Len(render_pass.framebuffers) = Len(image_views(swapchain))
          /\ \A i \in 1 .. Len(render_pass.framebuffers) :
                render_pass.framebuffers[i].attachments[1] = image_views(swapchain)[i]

C11_Witness ==
    /\ pc = "idle"
    /\ swapchain.id = 1
    /\ ok_calls >= 1
    /\ Len(render_pass.framebuffers) = 2

\* C12 as stated: when handle_resize has run to its end at least once and
\* the handler is back in the event loop, the depth buffer is one created
\* for the current swapchain's extent and every framebuffer binds its view.
C12_DepthBufferFollowsSwapchain ==
    (pc = "idle" /\ swapchain.id >= 1)
       => /\ depth_buffer = DepthBuffer_new(swapchain)
          /\ \A i \in 1 .. Len(render_pass.framebuffers) :
                render_pass.framebuffers[i].attachments[2] = depth_buffer.image_view

\* C13: Buffer::upload_data returns an error with no memory mapped and
\* nothing copied whenever len(data) * size_of(element) exceeds the
\* buffer's size; when the payload fits, it maps exactly that many bytes
\* from offset 0 and, the mapping having succeeded, copies exactly that
\* many bytes and unmaps.
C13_UploadChecksSize ==
    (call.fn = "upload_data" /\ call.result # "pending")
       => LET data_size == call.size_of * call.len IN
          /\ data_size > call.self.size
                => call.result = "err" /\ call.ops = << >>
          /\ data_size <= call.self.size
                => /\ Len(call.ops) >= 1
                   /\ call.ops[1].op = "map_memory"
                   /\ call.ops[1].offset = 0
                   /\ call.ops[1].size = data_size
                   /\ call.ops[1].ok
                         => /\ call.result = "ok"
                            /\ Len(call.ops) = 3
                            /\ call.ops[2] = [op |-> "copy_from_slice",
                                              size |-> data_size]
                            /\ call.ops[3] = [op |-> "unmap_memory"]
                   /\ ~call.ops[1].ok
                         => call.result = "err" /\ Len(call.ops) = 1

\* an oversized payload was refused
C13_Witness ==
    /\ call.fn = "upload_data"
    /\ call.result = "err"
    /\ call.len = 2
    /\ call.size_of = SizeOfVertex
    /\ call.self.size = SizeOfVertex
    /\ call.ops = << >>

\* Memory type i is allowed by the call's type filter and has every
\* requested property flag
C14_Suitable(i) ==
    /\ i \in 0 .. call.mem_properties.memory_type_count - 1
    /\ (call.type_filter \div 2 ^ i) % 2 = 1
    /\ \A f \in call.properties : f \in call.mem_properties.memory_types[i + 1]

\* C14: Buffer::find_memory_type returns the lowest index i whose bit is
\* set in the type filter and whose property flags contain every requested
\* flag, and fails only when no memory type is suitable.
C14_FirstSuitableMemoryType ==
    (call.fn = "find_memory_type" /\ call.result # "pending")
       => /\ call.result = "ok"
                => /\ C14_Suitable(call.index)
                   /\ \A j \in 0 .. call.index - 1 : ~C14_Suitable(j)
          /\ call.result = "err"
                => \A j \in 0 .. MaxTypes : ~C14_Suitable(j)

\* two memory types are suitable and the lower index was returned
C14_Witness ==
    /\ call.fn = "find_memory_type"
    /\ call.result = "ok"
    /\ call.index = 1
    /\ ~C14_Suitable(0)
    /\ C14_Suitable(2)

\* C15 as stated: when load_mesh replaces a previous mesh, the old vertex
\* and index buffers are released only once no submitted GPU work
\* references them, whatever the interleaving of draw_frame and load_mesh.
C15_MeshReleasedAfterGpuWork ==
    [][ (alive["mesh_buffers"] = "live" /\ alive'["mesh_buffers"] # "live")
           => \A b \in Batches :
                 command_buffers[b.cmd].vertex_buffers # mesh_buffers.gen ]_vars

\* C16 as stated: a teardown that runs to its end has waited for device
\* idle and released, in this order: mesh buffers, uniform buffers,
\* descriptor pool, command pool, sync objects, pipeline, render target set
\* (framebuffers and render pass), depth buffer, swapchain (image views and
\* swapchain), surface, device, instance.
C16_TeardownOrder ==
    (pc = "exited" /\ Len(teardown) > 2)
       => teardown =
             << "mesh_buffers", "uniform_buffers", "descriptor_pool",
                "command_pool", "sync", "pipeline", "framebuffers",
                "render_pass", "depth_buffer", "image_views", "swapchain",
                "surface", "device", "instance" >>

\* C17 as stated: once the logical device is destroyed, every object that
\* was created from it has already been released.
C17_NothingOutlivesDevice ==
    alive["device"] # "live"
       => \A o \in Objects \ { "device", "surface", "instance" } :
             alive[o] # "live"

\* C18 as stated: the old image views and swapchain that
\* VulkanSwapchain::recreate destroyed are never destroyed again, also
\* when the rebuild fails.
C18_OldSwapchainNotDestroyedAgain ==
    \A o \in SwapchainObjects : alive[o] # "destroyed_twice"

\* C19: after a successful load of a mesh of V vertices and I indices the
\* vertex buffer is device-local and exactly V * 44 bytes, the index
\* buffer is device-local and exactly I * 4 bytes, and the two copies from
\* the staging buffers transfer exactly V * 44 and I * 4 bytes into them.
C19_MeshBufferSizes ==
    (call.fn = "load_mesh" /\ call.result = "ok")
       => LET V == call.mesh.vertices
              I == call.mesh.indices
              copies == SelectSeq(call.ops, LAMBDA o : o.op = "copy_buffer")
          IN  /\ mesh_buffers.vertex_buffer.size = V * 44
              /\ mesh_buffers.index_buffer.size = I * 4
              /\ "DEVICE_LOCAL" \in mesh_buffers.vertex_buffer.properties
              /\ "DEVICE_LOCAL" \in mesh_buffers.index_buffer.properties
              /\ Len(copies) = 2
              /\ copies[1].dst = mesh_buffers.vertex_buffer
              /\ copies[1].size = V * 44
              /\ copies[1].src.size = V * 44
              /\ copies[2].dst = mesh_buffers.index_buffer
              /\ copies[2].size = I * 4
              /\ copies[2].src.size = I * 4

\* two vertices and three indices were loaded: 88 and 12 bytes
C19_Witness ==
    /\ call.fn = "load_mesh"
    /\ call.result = "ok"
    /\ call.mesh = [vertices |-> 2, indices |-> 3]
    /\ mesh_buffers.vertex_buffer.size = 88
    /\ mesh_buffers.index_buffer.size = 12

\* C20: after a successful load_mesh(mesh) the renderer's mesh buffers are
\* the newly created ones, live, in place of the previous ones, and their
\* index_count is the number of indices of `mesh`.
C20_IndexCountOfLoadedMesh ==
    (call.fn = "load_mesh" /\ call.result = "ok")
       => /\ mesh_buffers.index_count = call.mesh.indices
          /\ mesh_buffers.gen >= 1
          /\ mesh_buffers.vertex_buffer.size = SizeOfVertex * call.mesh.vertices
          /\ mesh_buffers.index_buffer.size = SizeOfU32 * call.mesh.indices
          /\ alive["mesh_buffers"] = "live"

\* a mesh of three vertices and two indices replaced the first mesh
C20_Witness ==
    /\ call.fn = "load_mesh"
    /\ call.result = "ok"
    /\ call.mesh = [vertices |-> 3, indices |-> 2]
    /\ mesh_buffers.gen = 1
    /\ mesh_buffers.index_count = 2
    /\ pc = "idle"

\* C21 as stated: a request for a layout transition other than
\* undefined -> transfer-dst and transfer-dst -> shader-read-only returns
\* an error without any Vulkan call having been made: no command buffer
\* was allocated or begun.
C21_UnsupportedTransitionRejectedFirst ==
    (/\ call.fn = "transition_layout"
     /\ call.result # "pending"
     /\ ~ \/ (call.old_layout = "UNDEFINED"
                /\ call.new_layout = "TRANSFER_DST_OPTIMAL")
          \/ (call.old_layout = "TRANSFER_DST_OPTIMAL"
                /\ call.new_layout = "SHADER_READ_ONLY_OPTIMAL"))
       => call.result = "err" /\ call.ops = << >>

\* C22 as stated: when a resource-creation operation fails (here
\* MeshBuffers::from_mesh inside load_mesh), every buffer the failed call
\* had created has been released again when the error reaches the caller.
C22_NoPartialObjectOnFailure ==
    (call.fn = "load_mesh" /\ call.result = "err")
       => \A k \in 1 .. Len(call.ops) :
             call.ops[k].op = "new"
                => \E j \in k + 1 .. Len(call.ops) :
                      /\ call.ops[j].op = "cleanup"
                      /\ call.ops[j].buffer = call.ops[k].buffer

\* The steps of draw_frame in the order of the claim
C23_Order ==
    << "wait_for_fences", "acquire_next_image", "reset_fences",
       "update_uniform_buffer", "record_command_buffer", "queue_submit",
       "queue_present" >>

\* C23: a draw_frame call starts with the wait on the slot's fence and
\* goes through acquire, fence reset, uniform write, command recording,
\* submit and present in that order; it moves from a step to the next only
\* when the step has had its effect (the fence was signaled, an image was
\* acquired, the fence is reset, the slot's uniform buffer is written, the
\* slot's command buffer is recorded for the acquired image, the batch is
\* queued), otherwise it returns; each effect happens in its own step
\* only; and the frame slot advances last, with the present.
C23_StepsInOrder ==
    [][ /\ (pc \notin DrawSteps /\ pc' \in DrawSteps)
              => pc' = "wait_for_fences"
        /\ (pc \in DrawSteps /\ pc' # pc)
              => \E k \in 1 .. Len(C23_Order) :
                    /\ pc = C23_Order[k]
                    /\ \/ pc' = "idle"
                       \/ k < Len(C23_Order) /\ pc' = C23_Order[k + 1]
        /\ pc' = "acquire_next_image" /\ pc # pc'
              => in_flight_fences[frame.slot]
        /\ pc' = "reset_fences" /\ pc # pc'
              => /\ frame'.image_index \in ImageIds
                 /\ images[frame'.image_index] = "free"
                 /\ images'[frame'.image_index] = "acquired"
        /\ pc' = "update_uniform_buffer" /\ pc # pc'
              => ~ in_flight_fences'[frame.slot]
        /\ pc' = "record_command_buffer" /\ pc # pc'
              => uniform_buffers'[frame.slot]
        /\ pc' = "queue_submit" /\ pc # pc'
              => command_buffers'[frame.slot].framebuffer = frame.image_index
        /\ pc' = "queue_present" /\ pc # pc'
              => /\ Len(graphics_queue') = Len(graphics_queue) + 1
                 /\ graphics_queue'[Len(graphics_queue')].cmd = frame.slot
        /\ (\E s \in Slots : in_flight_fences[s] /\ ~ in_flight_fences'[s])
              => pc = "reset_fences"
        /\ (\E i \in ImageIds : images[i] # "acquired" /\ images'[i] = "acquired")
              => pc = "acquire_next_image"
        /\ (\E s \in Slots : ~ uniform_buffers[s] /\ uniform_buffers'[s])
              => pc = "update_uniform_buffer"
        /\ command_buffers' # command_buffers => pc = "record_command_buffer"
        /\ Len(graphics_queue') > Len(graphics_queue) => pc = "queue_submit"
        /\ Len(present_queue') > Len(present_queue) => pc = "queue_present"
        /\ current_frame' # current_frame
              => /\ pc = "queue_present"
                 /\ pc' = "idle"
                 /\ Len(present_queue') > Len(present_queue)
                 /\ current_frame' = (frame.slot + 1) % MAX_FRAMES_IN_FLIGHT
      ]_vars

\* two calls have gone through all their steps
C23_Witness ==
    /\ pc = "idle"
    /\ ok_calls = 2
    /\ current_frame = 0
    /\ Len(present_queue) + Len(graphics_queue) >= 1

\* C24 as stated: at every entry to draw_frame the in-flight fence of the
\* current slot is signaled or a queued graphics submission will signal
\* it, so the wait at the start of draw_frame terminates.
C24_FenceWaitTerminates ==
    pc = "wait_for_fences"
       => \/ in_flight_fences[frame.slot]
          \/ \E b \in Batches : b.fence = frame.slot

\* C25 as stated: a queue_submit never signals a render-finished
\* semaphore that a still queued present request waits on, and
\* acquire_next_image is never given an image-available semaphore that is
\* signaled, has a signal pending from an earlier acquire, or is waited on
\* by a queued submission.
C25_SemaphoresNotReusedWhilePending ==
    [][ /\ Len(graphics_queue') > Len(graphics_queue)
              => \A k \in 1 .. Len(present_queue) :
                    graphics_queue'[Len(graphics_queue')].signal
                       \cap present_queue[k].wait = { }
        /\ (pc = "acquire_next_image" /\ pc' = "reset_fences")
              => /\ ~ image_available_semaphores[frame.slot]
                 /\ \A i \in ImageIds : image_sem[i] # frame.slot
                 /\ \A b \in Batches : frame.slot \notin b.wait
      ]_vars

\* C26 as stated: no object of the engine is destroyed twice, and while
\* draw_frame runs every object it uses is live, whatever draw_frame,
\* handle_resize and cleanup calls came before and whichever of them
\* failed.
C26_HandlesLive ==
    /\ \A o \in Objects : alive[o] # "destroyed_twice"
    /\ pc \in DrawSteps => \A o \in Objects : alive[o] = "live"

\* C27 as stated: in teardown and in resize recreation no object is
\* destroyed while an object built from it is still alive: the image views
\* outlive the framebuffers, the render pass outlives the framebuffers and
\* the pipeline, the swapchain outlives its image views.
C27_DependentsDestroyedFirst ==
    /\ alive["image_views"] # "live" => alive["framebuffers"] # "live"
    /\ alive["render_pass"] # "live"
          => alive["framebuffers"] # "live" /\ alive["pipeline"] # "live"
    /\ alive["swapchain"] # "live" => alive["image_views"] # "live"

\* C28 as stated: whenever draw_frame runs, the framebuffers, the depth
\* buffer they bind and the pipeline are all the ones built for the
\* current swapchain: every resize has recreated all of them before the
\* next draw_frame.
C28_DrawSeesOneExtent ==
    pc \in DrawSteps
       => /\ pipeline.swapchain = swapchain.id
          /\ Len(render_pass.framebuffers) = swapchain.count
          /\ \A i \in 1 .. Len(render_pass.framebuffers) :
                /\ render_pass.framebuffers[i].attachments[1].swapchain
                      = swapchain.id
                /\ render_pass.framebuffers[i].attachments[2].extent_of
                      = swapchain.id

\* C29 as stated: the logical device is only destroyed after a device-idle
\* wait has completed with nothing submitted since, so that at its
\* destruction no submitted work is left on any queue.
C29_DeviceDestroyedIdle ==
    alive["device"] # "live" => GpuIdle

\* C30: whenever draw_frame is about to record its command buffer, the
\* acquired image index is a valid index into render_pass.framebuffers
\* and the framebuffer there was built from the current swapchain's image
\* view of that index, after any sequence of resizes.
C30_AcquiredIndexHasFramebuffer ==
    pc = "record_command_buffer"
       => /\ frame.image_index >= 0
          /\ frame.image_index < Len(render_pass.framebuffers)
          /\ render_pass.framebuffers[frame.image_index + 1].attachments[1]
                = [swapchain |-> swapchain.id, image |-> frame.image_index]
          /\ alive["framebuffers"] = "live"

\* after a resize, the second image of the new swapchain is being recorded
C30_Witness ==
    /\ pc = "record_command_buffer"
    /\ swapchain.id = 1
    /\ frame.image_index = 1

\* C31: when a draw_frame call returns an error, at whichever step,
\* sync.current_frame is what it was when the call started, and the next
\* call takes that same slot.
C31_ErrorKeepsSlot ==
    [][ /\ (pc \in DrawSteps /\ pc' \notin DrawSteps /\ ok_calls' = ok_calls)
              => current_frame' = current_frame /\ current_frame' = frame.slot
        /\ (pc \notin DrawSteps /\ pc' \in DrawSteps)
              => frame'.slot = current_frame
      ]_vars

\* a first call failed and the second call runs on slot 0 again
C31_Witness ==
    /\ pc = "wait_for_fences"
    /\ calls = 2
    /\ ok_calls = 0
    /\ frame.slot = 0

\* C32 as stated: in every staged upload of a load, finished with or
\* without error, the staging buffer that was created is released, and
\* when its copy was made the release comes after the copy (which ends
\* with the queue-idle wait).
C32_StagingAlwaysReleased ==
    (call.fn = "load_mesh" /\ call.result # "pending")
       => \A k \in 1 .. Len(call.ops) :
             (call.ops[k].op = "new"
                 /\ "TRANSFER_SRC" \in call.ops[k].buffer.usage)
                => \E j \in k + 1 .. Len(call.ops) :
                      /\ call.ops[j].op = "cleanup"
                      /\ call.ops[j].buffer = call.ops[k].buffer
                      /\ \E c \in k + 1 .. j - 1 :
                            /\ call.ops[c].op = "copy_buffer"
                            /\ call.ops[c].src = call.ops[k].buffer

\* C33 as stated: in a staged upload (here the texture's) the staging
\* buffer's size is the byte length of the payload written into it, and
\* the copy to the device-local resource reads no more bytes of the
\* staging buffer than the payload wrote.
C33_StagingSizedToPayload ==
    (call.fn = "Texture::new" /\ call.result # "pending")
       => \A k \in 1 .. Len(call.ops) :
             /\ call.ops[k].op = "upload_data"
                   => call.ops[k].buffer.size = call.ops[k].size
             /\ call.ops[k].op = "copy_buffer_to_image"
                   => \E u \in 1 .. k - 1 :
                         /\ call.ops[u].op = "upload_data"
                         /\ call.ops[u].buffer = call.ops[k].src
                         /\ call.ops[k].size <= call.ops[u].size

\* C34 as stated: choose_swap_extent returns the surface's current extent
\* when it is fixed (its width is not u32::MAX); otherwise the window
\* width clamped into [min_image_extent.width, max_image_extent.width] and
\* the window height clamped into [min_image_extent.height,
\* max_image_extent.height].
C34_ExtentClamped ==
    (call.fn = "choose_swap_extent" /\ call.result = "ok")
       => LET c == call.capabilities IN
          IF c.current_extent.width # U32_MAX
          THEN call.extent = c.current_extent
          ELSE /\ call.extent.width =
                     (IF call.window_width < c.min_image_extent.width
                      THEN c.min_image_extent.width
                      ELSE IF call.window_width > c.max_image_extent.width
                      THEN c.max_image_extent.width
                      ELSE call.window_width)
               /\ call.extent.height =
                     (IF call.window_height < c.min_image_extent.height
                      THEN c.min_image_extent.height
                      ELSE IF call.window_height > c.max_image_extent.height
                      THEN c.max_image_extent.height
                      ELSE call.window_height)

\* C35: the requested image count is min_image_count + 1, or
\* max_image_count when that is nonzero and smaller; it is never below
\* min_image_count and, when max_image_count is nonzero, never above it.
C35_ImageCountClamped ==
    (call.fn = "image_count" /\ call.result = "ok")
       => LET min == call.capabilities.min_image_count
              max == call.capabilities.max_image_count
          IN  /\ call.image_count =
                    (IF max # 0 /\ max < min + 1 THEN max ELSE min + 1)
              /\ call.image_count >= min
              /\ max # 0 => call.image_count <= max

\* a surface with min = max = 2: two images are requested, not three
C35_Witness ==
    /\ call.fn = "image_count"
    /\ call.result = "ok"
    /\ call.capabilities = [min_image_count |-> 2, max_image_count |-> 2]
    /\ call.image_count = 2

\* C36: in every state in which a frame can be drawn (the handler is in
\* the event loop or inside draw_frame), the swapchain holds exactly one
\* image view per image and its extent is the extent the current
\* framebuffers were built with, after creation and after any number of
\* recreations.
C36_ViewsAndExtentMatch ==
    pc \in DrawSteps \cup {"idle"}
       => /\ Len(image_views(swapchain))
                = Cardinality({ i \in ImageIds : images[i] # "none" })
          /\ \A i \in 1 .. Len(image_views(swapchain)) :
                /\ image_views(swapchain)[i].image \in ImageIds
                /\ images[image_views(swapchain)[i].image] # "none"
                /\ \A j \in 1 .. Len(image_views(swapchain)) :
                      image_views(swapchain)[i].image
                         = image_views(swapchain)[j].image => i = j
          /\ \A i \in 1 .. Len(render_pass.framebuffers) :
                render_pass.framebuffers[i].extent = swapchain_extent(swapchain)

\* a successful frame is being presented on a recreated swapchain
C36_Witness ==
    /\ pc = "queue_present"
    /\ swapchain.id = 1
    /\ Len(render_pass.framebuffers) = 2
    /\ render_pass.framebuffers[1].extent = swapchain_extent(swapchain)

\* the descriptors of one type a pool was created with
C37_PoolCapacity(pool, type) ==
    LET sizes == pool.pool_sizes
        Sum[n \in 0 .. Len(sizes)] ==
            IF n = 0 THEN 0
            ELSE Sum[n - 1] + (IF sizes[n].ty = type
                               THEN sizes[n].descriptor_count ELSE 0)
    IN  Sum[Len(sizes)]

\* the descriptors of one type that one set of a layout takes
C37_LayoutNeeds(layout, type) ==
    LET Sum[n \in 0 .. Len(layout)] ==
            IF n = 0 THEN 0
            ELSE Sum[n - 1] + (IF layout[n].descriptor_type = type
                               THEN layout[n].descriptor_count ELSE 0)
    IN  Sum[Len(layout)]

\* C37 as stated: whenever a recorded command buffer binds the descriptor
\* set of a slot, that set has the slot's own uniform buffer written at
\* binding 0, every binding the pipeline's layout declares (0, 1 and 2)
\* has been written in it, and the descriptor pool was created with room
\* for the descriptors of all N sets.
C37_BoundSetsComplete ==
    \A s \in Slots :
       command_buffers[s].descriptor_set # NoSlot
          => LET set == descriptors.descriptor_sets[command_buffers[s].descriptor_set]
                 writes == set.descriptor_writes
             IN  /\ \E w \in 1 .. Len(writes) :
                       /\ writes[w].dst_binding = 0
                       /\ writes[w].buffer = [uniform_buffer |-> s]
                 /\ \A b \in 1 .. Len(set.layout) :
                       \E w \in 1 .. Len(writes) :
                          /\ writes[w].dst_binding = set.layout[b].binding
                          /\ writes[w].descriptor_type
                                = set.layout[b].descriptor_type
                 /\ descriptors.descriptor_pool.max_sets >= MAX_FRAMES_IN_FLIGHT
                 /\ \A type \in {"UNIFORM_BUFFER", "COMBINED_IMAGE_SAMPLER"} :
                       C37_PoolCapacity(descriptors.descriptor_pool, type)
                          >= MAX_FRAMES_IN_FLIGHT
                               * C37_LayoutNeeds(set.layout, type)

\* C38 as stated: when VulkanPipeline::new has returned, with a pipeline
\* or with an error from any step, every shader module it created has
\* been released.
C38_ShaderModulesReleased ==
    (call.fn = "VulkanPipeline::new" /\ call.result # "pending")
       => \A i \in 1 .. Len(call.ops) :
             (call.ops[i].op = "create_shader_module" /\ call.ops[i].ok)
                => \E j \in i + 1 .. Len(call.ops) :
                      /\ call.ops[j].op = "destroy_shader_module"
                      /\ call.ops[j].module = call.ops[i].module

\* C39: recreate_framebuffers destroys every old framebuffer, before it
\* creates any, and makes no call other than destroying and creating
\* framebuffers; the render pass handle is what it was before the call;
\* when the call succeeds the new array has exactly one framebuffer per
\* given image view, in order, each with the one depth view as its
\* second attachment.
C39_OnlyFramebuffersRebuilt ==
    (call.fn = "recreate_framebuffers" /\ call.result # "pending")
       => /\ Len(call.ops) >= Len(call.before.framebuffers)
          /\ \A i \in 1 .. Len(call.before.framebuffers) :
                /\ call.ops[i].op = "destroy_framebuffer"
                /\ call.ops[i].framebuffer = call.before.framebuffers[i]
          /\ \A j \in Len(call.before.framebuffers) + 1 .. Len(call.ops) :
                call.ops[j].op = "create_framebuffer"
          /\ call.self.render_pass = call.before.render_pass
          /\ call.result = "ok"
                => /\ Len(call.self.framebuffers) = Len(call.image_views)
                   /\ \A i \in 1 .. Len(call.image_views) :
                         /\ call.self.framebuffers[i].attachments[1]
                               = call.image_views[i]
                         /\ call.self.framebuffers[i].attachments[2]
                               = call.depth_buffer.image_view
                         /\ Len(call.self.framebuffers[i].attachments) = 2

\* two old framebuffers destroyed, three new ones built
C39_Witness ==
    /\ call.fn = "recreate_framebuffers"
    /\ call.result = "ok"
    /\ Len(call.before.framebuffers) = 2
    /\ Len(call.self.framebuffers) = 3
    /\ Len(call.ops) = 5

\* C40: a face line with n >= 3 valid vertices parses to exactly n - 2
\* triangles, triangle i being (first vertex, vertex i + 1, vertex i + 2);
\* the mesh built from the parsed faces has 3 indices per triangle and
\* every index is smaller than the number of mesh vertices.
C40_FanTriangulation ==
    (call.fn = "load_obj" /\ call.result # "pending")
       => LET n == Len(call.tokens) IN
          /\ (n >= 3 /\ \A i \in 1 .. n : call.tokens[i] > 0)
                => /\ call.result # "err"
                   /\ Len(call.faces) = n - 2
                   /\ \A i \in 1 .. n - 2 :
                         /\ Len(call.faces[i].vertices) = 3
                         /\ call.faces[i].vertices[1].position_idx
                               = call.tokens[1] - 1
                         /\ call.faces[i].vertices[2].position_idx
                               = call.tokens[i + 1] - 1
                         /\ call.faces[i].vertices[3].position_idx
                               = call.tokens[i + 2] - 1
          /\ call.result = "ok"
                => /\ Len(call.mesh.indices) = 3 * Len(call.faces)
                   /\ \A i \in 1 .. Len(call.mesh.indices) :
                         /\ call.mesh.indices[i] >= 0
                         /\ call.mesh.indices[i] < Len(call.mesh.vertices)

\* the quad of the tests: two triangles, six indices, four vertices
C40_Witness ==
    /\ call.fn = "load_obj"
    /\ call.result = "ok"
    /\ call.tokens = << 1, 2, 3, 4 >>
    /\ Len(call.faces) = 2
    /\ call.mesh.indices = << 0, 1, 2, 0, 2, 3 >>
    /\ Len(call.mesh.vertices) = 4

====
